---------------------------- MODULE Spec2Model ----------------------------
(***************************************************************************)
(* A model of widget/GfxInfoBase.cpp: the graphics feature blocklist.      *)
(*                                                                         *)
(* The state is the preference store that caches the evaluation of the     *)
(* downloaded blocklist (one integer pref and one ".failureid" pref per    *)
(* feature, one suggested-driver-version pref), the per-process cache      *)
(* sFeatureStatus of the parent process and of one content/GPU process,    *)
(* the shutdown flag, and the environment the collaborators report         *)
(* (build target, adapters, OS, screens, static rule table).               *)
(***************************************************************************)
EXTENDS Integers, Sequences, FiniteSets, TLC

VARIABLES
  prefs,                \* the preference store (shared by all processes)
  sFeatureStatus,       \* GfxInfoBase::sFeatureStatus in the parent process
  sFeatureStatusChild,  \* GfxInfoBase::sFeatureStatus in a content/GPU process
  sShutdownOccurred,    \* GfxInfoBase::sShutdownOccurred (parent)
  sOnce,                \* InitFeatureStatus's once_flag: "unset", "registered", "cleared"
  env,                  \* the name of the environment (build, collaborators); fixed
  lastApply             \* whether a batch arrived and whether it was evaluated

vars == <<prefs, sFeatureStatus, sFeatureStatusChild, sShutdownOccurred,
          sOnce, env, lastApply>>

NULL == "nullptr"
NoPref == "<no pref>"

-----------------------------------------------------------------------------
(* nsIGfxInfo status values.  FEATURE_STATUS_INVALID is the value 0, which  *)
(* FindBlocklistedDeviceInList returns literally on its early exits.        *)

FEATURE_STATUS_INVALID == "STATUS_INVALID"
FEATURE_STATUS_OK == "STATUS_OK"
FEATURE_STATUS_UNKNOWN == "STATUS_UNKNOWN"
FEATURE_BLOCKED_DRIVER_VERSION == "BLOCKED_DRIVER_VERSION"
FEATURE_BLOCKED_DEVICE == "BLOCKED_DEVICE"
FEATURE_DISCOURAGED == "DISCOURAGED"
FEATURE_BLOCKED_OS_VERSION == "BLOCKED_OS_VERSION"
FEATURE_BLOCKED_MISMATCHED_VERSION == "BLOCKED_MISMATCHED_VERSION"
FEATURE_DENIED == "DENIED"
FEATURE_ALLOW_ALWAYS == "ALLOW_ALWAYS"
FEATURE_ALLOW_QUALIFIED == "ALLOW_QUALIFIED"
FEATURE_BLOCKED_PLATFORM_TEST == "BLOCKED_PLATFORM_TEST"

\* The names GFXINFO_FEATURE_STATUS enumerates (the status names a record may use).
FeatureStatusDefs ==
  { FEATURE_STATUS_OK, FEATURE_STATUS_UNKNOWN, FEATURE_BLOCKED_DRIVER_VERSION,
    FEATURE_BLOCKED_DEVICE, FEATURE_DISCOURAGED, FEATURE_BLOCKED_OS_VERSION,
    FEATURE_BLOCKED_MISMATCHED_VERSION, FEATURE_DENIED, FEATURE_ALLOW_ALWAYS,
    FEATURE_ALLOW_QUALIFIED, FEATURE_BLOCKED_PLATFORM_TEST }

\* The statuses the spec calls defined: every status but UNKNOWN.
DefinedStatuses == FeatureStatusDefs \ {FEATURE_STATUS_UNKNOWN}

\* The statuses EvaluateDownloadedBlocklist persists.
BlockedStatuses ==
  { FEATURE_BLOCKED_DRIVER_VERSION, FEATURE_BLOCKED_MISMATCHED_VERSION,
    FEATURE_BLOCKED_DEVICE, FEATURE_DISCOURAGED, FEATURE_BLOCKED_OS_VERSION,
    FEATURE_BLOCKED_PLATFORM_TEST }

-----------------------------------------------------------------------------
(* Features.  The enumeration FEATURE_START .. FEATURE_COUNT-1 is cut to    *)
(* the features the code treats specially plus one ordinary feature.        *)

FEATURE_DIRECT2D == "DIRECT2D"
FEATURE_DIRECT3D_11_ANGLE == "DIRECT3D_11_ANGLE"
FEATURE_HW_DECODED_VIDEO_ZERO_COPY == "HW_DECODED_VIDEO_ZERO_COPY"
FEATURE_INVALID == "FEATURE_INVALID"
allFeatures == "ALL"
optionalFeatures == "OPTIONAL"

\* for (i = FEATURE_START; i < FEATURE_COUNT; ++i): the enumeration, in order.
FeatureOrder ==
  << FEATURE_DIRECT2D, FEATURE_DIRECT3D_11_ANGLE, FEATURE_HW_DECODED_VIDEO_ZERO_COPY >>

Features == { FeatureOrder[i] : i \in 1..Len(FeatureOrder) }

IsFeatureAllowlisted(aFeature) == aFeature = FEATURE_HW_DECODED_VIDEO_ZERO_COPY

OnlyAllowFeatureOnKnownConfig(aFeature) ==
  CASE aFeature = FEATURE_DIRECT3D_11_ANGLE -> FALSE
    [] OTHER -> TRUE

MatchingAllowStatus(aStatus) ==
  aStatus \in {FEATURE_ALLOW_ALWAYS, FEATURE_ALLOW_QUALIFIED}

-----------------------------------------------------------------------------
(* Driver versions.  A packed 64-bit version is the tuple of its four       *)
(* 16-bit parts; the order of the packed values is the lexicographic order. *)

V(a, b, c, d) == <<a, b, c, d>>
allDriverVersions == <<65535, 65535, 65535, 65535>>
ZeroVersion == <<0, 0, 0, 0>>

VLess(x, y) ==
  \E k \in 1..4 : x[k] < y[k] /\ \A j \in 1..(k - 1) : x[j] = y[j]
VLessEq(x, y) == x = y \/ VLess(x, y)

\* (v & 0xFFFF) as a 64-bit value
Low16(v) == <<0, 0, 0, v[4]>>

\* The VersionComparisonOp names GFXINFO_DRIVER_VERSION_CMP enumerates.
DRIVER_LESS_THAN == "LESS_THAN"
DRIVER_BUILD_ID_LESS_THAN == "BUILD_ID_LESS_THAN"
DRIVER_LESS_THAN_OR_EQUAL == "LESS_THAN_OR_EQUAL"
DRIVER_BUILD_ID_LESS_THAN_OR_EQUAL == "BUILD_ID_LESS_THAN_OR_EQUAL"
DRIVER_GREATER_THAN == "GREATER_THAN"
DRIVER_GREATER_THAN_OR_EQUAL == "GREATER_THAN_OR_EQUAL"
DRIVER_EQUAL == "EQUAL"
DRIVER_NOT_EQUAL == "NOT_EQUAL"
DRIVER_BETWEEN_EXCLUSIVE == "BETWEEN_EXCLUSIVE"
DRIVER_BETWEEN_INCLUSIVE == "BETWEEN_INCLUSIVE"
DRIVER_BETWEEN_INCLUSIVE_START == "BETWEEN_INCLUSIVE_START"
DRIVER_COMPARISON_IGNORED == "COMPARISON_IGNORED"
\* a VersionComparisonOp value outside the enumeration
DRIVER_BOGUS_OP == "<bogus op>"

DriverVersionCmpDefs ==
  { DRIVER_LESS_THAN, DRIVER_BUILD_ID_LESS_THAN, DRIVER_LESS_THAN_OR_EQUAL,
    DRIVER_BUILD_ID_LESS_THAN_OR_EQUAL, DRIVER_GREATER_THAN,
    DRIVER_GREATER_THAN_OR_EQUAL, DRIVER_EQUAL, DRIVER_NOT_EQUAL,
    DRIVER_BETWEEN_EXCLUSIVE, DRIVER_BETWEEN_INCLUSIVE,
    DRIVER_BETWEEN_INCLUSIVE_START, DRIVER_COMPARISON_IGNORED }

\* The comparison with DRIVER_BETWEEN_INCLUSIVE_START closed at both ends.
DriverVersionMatchClosed(aCmp, aSystem, aBlocked, aBlockedMax) ==
  CASE aCmp = DRIVER_COMPARISON_IGNORED -> TRUE
    [] aCmp \in {DRIVER_BETWEEN_INCLUSIVE, DRIVER_BETWEEN_INCLUSIVE_START} ->
         VLessEq(aBlocked, aSystem) /\ VLessEq(aSystem, aBlockedMax)
    [] aCmp = DRIVER_BETWEEN_EXCLUSIVE ->
         VLess(aBlocked, aSystem) /\ VLess(aSystem, aBlockedMax)
    [] OTHER -> FALSE

\* The comparison with the build-id operators on the whole system version.
DriverVersionMatchUnmasked(aCmp, aSystem, aBlocked, aBlockedMax) ==
  CASE aCmp \in {DRIVER_LESS_THAN, DRIVER_BUILD_ID_LESS_THAN} -> VLess(aSystem, aBlocked)
    [] aCmp \in {DRIVER_LESS_THAN_OR_EQUAL, DRIVER_BUILD_ID_LESS_THAN_OR_EQUAL} ->
         VLessEq(aSystem, aBlocked)
    [] aCmp = DRIVER_GREATER_THAN -> VLess(aBlocked, aSystem)
    [] aCmp = DRIVER_GREATER_THAN_OR_EQUAL -> VLessEq(aBlocked, aSystem)
    [] aCmp = DRIVER_EQUAL -> aSystem = aBlocked
    [] aCmp = DRIVER_NOT_EQUAL -> aSystem # aBlocked
    [] aCmp = DRIVER_BETWEEN_EXCLUSIVE ->
         VLess(aBlocked, aSystem) /\ VLess(aSystem, aBlockedMax)
    [] aCmp = DRIVER_BETWEEN_INCLUSIVE ->
         VLessEq(aBlocked, aSystem) /\ VLessEq(aSystem, aBlockedMax)
    [] aCmp = DRIVER_BETWEEN_INCLUSIVE_START ->
         VLessEq(aBlocked, aSystem) /\ VLess(aSystem, aBlockedMax)
    [] aCmp = DRIVER_COMPARISON_IGNORED -> TRUE
    [] OTHER -> FALSE

\* The switch on mComparisonOp in FindBlocklistedDeviceInList (builds with
\* driver versions); `match` starts false and the default case leaves it.
DriverVersionMatch(aCmp, aSystem, aBlocked, aBlockedMax) ==
  CASE aCmp = DRIVER_LESS_THAN -> VLess(aSystem, aBlocked)
    [] aCmp = DRIVER_BUILD_ID_LESS_THAN -> VLess(Low16(aSystem), aBlocked)
    [] aCmp = DRIVER_LESS_THAN_OR_EQUAL -> VLessEq(aSystem, aBlocked)
    [] aCmp = DRIVER_BUILD_ID_LESS_THAN_OR_EQUAL -> VLessEq(Low16(aSystem), aBlocked)
    [] aCmp = DRIVER_GREATER_THAN -> VLess(aBlocked, aSystem)
    [] aCmp = DRIVER_GREATER_THAN_OR_EQUAL -> VLessEq(aBlocked, aSystem)
    [] aCmp = DRIVER_EQUAL -> aSystem = aBlocked
    [] aCmp = DRIVER_NOT_EQUAL -> aSystem # aBlocked
    [] aCmp = DRIVER_BETWEEN_EXCLUSIVE ->
         VLess(aBlocked, aSystem) /\ VLess(aSystem, aBlockedMax)
    [] aCmp = DRIVER_BETWEEN_INCLUSIVE ->
         VLessEq(aBlocked, aSystem) /\ VLessEq(aSystem, aBlockedMax)
    [] aCmp = DRIVER_BETWEEN_INCLUSIVE_START ->
         VLessEq(aBlocked, aSystem) /\ VLess(aSystem, aBlockedMax)
    [] aCmp = DRIVER_COMPARISON_IGNORED -> TRUE
    [] OTHER -> FALSE

\* GfxVersionEx::Compare(aVersion, aVersionMax, aCmp) on the system's
\* extended OS version.
VersionExCompare(aSystem, aBlocked, aBlockedMax, aCmp) ==
  CASE aCmp = DRIVER_COMPARISON_IGNORED -> TRUE
    [] aCmp = DRIVER_LESS_THAN -> VLess(aSystem, aBlocked)
    [] aCmp = DRIVER_LESS_THAN_OR_EQUAL -> VLessEq(aSystem, aBlocked)
    [] aCmp = DRIVER_GREATER_THAN -> VLess(aBlocked, aSystem)
    [] aCmp = DRIVER_GREATER_THAN_OR_EQUAL -> VLessEq(aBlocked, aSystem)
    [] aCmp = DRIVER_EQUAL -> aSystem = aBlocked
    [] aCmp = DRIVER_NOT_EQUAL -> aSystem # aBlocked
    [] aCmp = DRIVER_BETWEEN_EXCLUSIVE ->
         VLess(aBlocked, aSystem) /\ VLess(aSystem, aBlockedMax)
    [] aCmp = DRIVER_BETWEEN_INCLUSIVE ->
         VLessEq(aBlocked, aSystem) /\ VLessEq(aSystem, aBlockedMax)
    [] aCmp = DRIVER_BETWEEN_INCLUSIVE_START ->
         VLessEq(aBlocked, aSystem) /\ VLess(aSystem, aBlockedMax)
    [] OTHER -> FALSE

\* A refresh-rate comparison in which an operator outside the enumeration
\* matches.
MatchingRefreshRatesLenient(aSystem, aBlocked, aBlockedMax, aCmp) ==
  CASE aCmp = DRIVER_LESS_THAN -> aSystem < aBlocked
    [] aCmp = DRIVER_LESS_THAN_OR_EQUAL -> aSystem <= aBlocked
    [] aCmp = DRIVER_GREATER_THAN -> aSystem > aBlocked
    [] aCmp = DRIVER_GREATER_THAN_OR_EQUAL -> aSystem >= aBlocked
    [] aCmp = DRIVER_EQUAL -> aSystem = aBlocked
    [] aCmp = DRIVER_NOT_EQUAL -> aSystem # aBlocked
    [] aCmp = DRIVER_BETWEEN_EXCLUSIVE -> aSystem > aBlocked /\ aSystem < aBlockedMax
    [] aCmp = DRIVER_BETWEEN_INCLUSIVE -> aSystem >= aBlocked /\ aSystem <= aBlockedMax
    [] aCmp = DRIVER_BETWEEN_INCLUSIVE_START ->
         aSystem >= aBlocked /\ aSystem < aBlockedMax
    [] OTHER -> TRUE

\* GfxInfoBase::MatchingRefreshRates
MatchingRefreshRates(aSystem, aBlocked, aBlockedMax, aCmp) ==
  CASE aCmp = DRIVER_COMPARISON_IGNORED -> TRUE
    [] aCmp = DRIVER_LESS_THAN -> aSystem < aBlocked
    [] aCmp = DRIVER_LESS_THAN_OR_EQUAL -> aSystem <= aBlocked
    [] aCmp = DRIVER_GREATER_THAN -> aSystem > aBlocked
    [] aCmp = DRIVER_GREATER_THAN_OR_EQUAL -> aSystem >= aBlocked
    [] aCmp = DRIVER_EQUAL -> aSystem = aBlocked
    [] aCmp = DRIVER_NOT_EQUAL -> aSystem # aBlocked
    [] aCmp = DRIVER_BETWEEN_EXCLUSIVE -> aSystem > aBlocked /\ aSystem < aBlockedMax
    [] aCmp = DRIVER_BETWEEN_INCLUSIVE -> aSystem >= aBlocked /\ aSystem <= aBlockedMax
    [] aCmp = DRIVER_BETWEEN_INCLUSIVE_START ->
         aSystem >= aBlocked /\ aSystem < aBlockedMax
    [] OTHER -> FALSE

-----------------------------------------------------------------------------
(* The remaining predicates of a rule.                                      *)

\* The build targets the conditional compilation distinguishes.
Builds == {"XP_WIN", "MOZ_WIDGET_GTK", "XP_MACOSX"}
\* #if defined(XP_WIN) || defined(ANDROID) || defined(MOZ_WIDGET_GTK)
HasDriverVersions(build) == build \in {"XP_WIN", "MOZ_WIDGET_GTK"}

MatchingOperatingSystems(build, aBlockedOS, aSystemOS) ==
  IF aBlockedOS = "Unknown" THEN FALSE
  ELSE IF build = "XP_WIN" /\ aBlockedOS = "Windows" THEN TRUE
  ELSE IF build = "XP_WIN" /\ aBlockedOS = "Windows10or11"
          /\ aSystemOS \in {"Windows10", "Windows11"} THEN TRUE
  ELSE IF build = "XP_MACOSX" /\ aBlockedOS = "OSX" THEN TRUE
  ELSE aSystemOS = aBlockedOS

MatchingRefreshRateStatus(aSystemStatus, aBlockedStatus) ==
  CASE aBlockedStatus = "Any" -> TRUE
    [] aBlockedStatus = "AnySame" -> aSystemStatus \in {"Single", "MultipleSame"}
    [] OTHER -> aSystemStatus = aBlockedStatus

MatchingBattery(aBatteryStatus, aHasBattery) ==
  CASE aBatteryStatus = "All" -> TRUE
    [] aBatteryStatus = "None" -> ~aHasBattery
    [] aBatteryStatus = "Present" -> aHasBattery
    [] OTHER -> FALSE

kMaxSmallPixels == 2304000
kMaxMediumPixels == 4953600

MatchingScreenSize(aScreenStatus, aScreenPixels) ==
  CASE aScreenStatus = "All" -> TRUE
    [] aScreenStatus = "Small" -> aScreenPixels <= kMaxSmallPixels
    [] aScreenStatus = "SmallAndMedium" -> aScreenPixels <= kMaxMediumPixels
    [] aScreenStatus = "Medium" ->
         aScreenPixels > kMaxSmallPixels /\ aScreenPixels <= kMaxMediumPixels
    [] aScreenStatus = "MediumAndLarge" -> aScreenPixels > kMaxSmallPixels
    [] aScreenStatus = "Large" -> aScreenPixels > kMaxMediumPixels
    [] OTHER -> FALSE

\* nsCaseInsensitiveStringComparator on the strings the model uses.
LowerCase(s) ==
  CASE s = "0x10DE" -> "0x10de"
    [] s = "0x0A70" -> "0x0a70"
    [] s = "0X8086" -> "0x8086"
    [] OTHER -> s

EqualsIgnoreCase(a, b) == LowerCase(a) = LowerCase(b)

\* GfxDriverInfo::GetDeviceVendor(DeviceVendor::All), GetDriverVendor(All),
\* GetWindowProtocol(WindowProtocol::All): the wildcard token.
AllToken == ""
VendorNVIDIA == "0x10de"

DoesWindowProtocolMatch(aBlocklistWindowProtocol, aWindowProtocol) ==
  \/ EqualsIgnoreCase(aBlocklistWindowProtocol, aWindowProtocol)
  \/ EqualsIgnoreCase(aBlocklistWindowProtocol, AllToken)

DoesVendorMatch(aBlocklistVendor, aAdapterVendor) ==
  \/ EqualsIgnoreCase(aBlocklistVendor, aAdapterVendor)
  \/ EqualsIgnoreCase(aBlocklistVendor, AllToken)

DoesDriverVendorMatch(aBlocklistVendor, aDriverVendor) ==
  \/ EqualsIgnoreCase(aBlocklistVendor, aDriverVendor)
  \/ EqualsIgnoreCase(aBlocklistVendor, AllToken)

\* nsAString::ToInteger(&rv, 16) on the device ids the model uses; -1 is a
\* failed conversion.
HexToInteger(s) ==
  CASE LowerCase(s) = "0x2582" -> 9602
    [] LowerCase(s) = "0x2782" -> 10114
    [] LowerCase(s) = "0x0a70" -> 2672
    [] OTHER -> -1

NoDevices == [ids |-> {}, ranges |-> {}]

\* GfxDeviceFamily::IsEmpty and GfxDeviceFamily::Contains: NS_OK when the id
\* is listed or lies in a range, NS_ERROR_NOT_AVAILABLE when it does not, and
\* the conversion's error when ranges exist and the id is not a number.
DevicesIsEmpty(aDevices) == aDevices.ids = {} /\ aDevices.ranges = {}

DevicesContains(aDevices, aDeviceId) ==
  IF \E id \in aDevices.ids : EqualsIgnoreCase(id, aDeviceId) THEN "NS_OK"
  ELSE IF aDevices.ranges = {} THEN "NS_ERROR_NOT_AVAILABLE"
  ELSE IF HexToInteger(aDeviceId) < 0 THEN "NS_ERROR_ILLEGAL_VALUE"
  ELSE IF \E rg \in aDevices.ranges :
            rg[1] <= HexToInteger(aDeviceId) /\ HexToInteger(aDeviceId) <= rg[2]
       THEN "NS_OK"
  ELSE "NS_ERROR_NOT_AVAILABLE"

\* ParseDriverVersion on the version strings the model uses: (ok, version).
\* The version is zeroed first, so a failed parse leaves 0.
ParseDriverVersion(s) ==
  CASE s = "8.52.322.2200" -> [ok |-> TRUE, version |-> V(8, 52, 322, 2200)]
    [] s = "8.52.322.2202" -> [ok |-> TRUE, version |-> V(8, 52, 322, 2202)]
    [] s = "8.52.322.2203" -> [ok |-> TRUE, version |-> V(8, 52, 322, 2203)]
    [] s = "9.0.0.100" -> [ok |-> TRUE, version |-> V(9, 0, 0, 100)]
    [] s = "0.0.0.3000" -> [ok |-> TRUE, version |-> V(0, 0, 0, 3000)]
    [] OTHER -> [ok |-> FALSE, version |-> ZeroVersion]

\* AppendPrintf("%lld.%lld.%lld.%lld", ...) of the four parts of a version.
FormatVersion(v) ==
  ToString(v[1]) \o "." \o ToString(v[2]) \o "." \o ToString(v[3]) \o "."
    \o ToString(v[4])

-----------------------------------------------------------------------------
(* GfxDriverInfo: one rule.  DefaultDriverInfo is what the default          *)
(* constructor leaves, which BlocklistEntryToDriverInfo then fills in.      *)

DefaultDriverInfo ==
  [ mOperatingSystem |-> "Unknown",
    mOperatingSystemVersion |-> 0,
    mOperatingSystemVersionEx |-> ZeroVersion,
    mOperatingSystemVersionExMax |-> ZeroVersion,
    mOperatingSystemVersionExComparisonOp |-> DRIVER_COMPARISON_IGNORED,
    mRefreshRateStatus |-> "Any",
    mMinRefreshRate |-> 0,
    mMinRefreshRateMax |-> 0,
    mMinRefreshRateComparisonOp |-> DRIVER_COMPARISON_IGNORED,
    mMaxRefreshRate |-> 0,
    mMaxRefreshRateMax |-> 0,
    mMaxRefreshRateComparisonOp |-> DRIVER_COMPARISON_IGNORED,
    mBattery |-> "All",
    mScreen |-> "All",
    mWindowProtocol |-> AllToken,
    mAdapterVendor |-> AllToken,
    mDriverVendor |-> AllToken,
    mDevices |-> NoDevices,
    mHardware |-> "",
    mModel |-> "",
    mProduct |-> "",
    mManufacturer |-> "",
    mComparisonOp |-> DRIVER_COMPARISON_IGNORED,
    mDriverVersion |-> ZeroVersion,
    mDriverVersionMax |-> ZeroVersion,
    mFeature |-> optionalFeatures,
    mFeatureStatus |-> FEATURE_STATUS_OK,
    mSuggestedVersion |-> "",
    mRuleId |-> "",
    mGpu2 |-> FALSE ]

-----------------------------------------------------------------------------
(* FindBlocklistedDeviceInList.  m is the machine as the collaborators      *)
(* report it (env.machine), build the build target.                         *)

Succeeded(rv) == rv = "NS_OK"
\* NS_FAILED(rv) && rv != NS_ERROR_NOT_IMPLEMENTED
HardFailure(rv) == rv # "NS_OK" /\ rv # "NS_ERROR_NOT_IMPLEMENTED"

\* adapterInfoFailed[slot]: any of the four getters of that adapter failed.
AdapterInfoFailed(m, slot) ==
  LET a == m.adapters[slot] IN
    ~(a.vendorOk /\ a.deviceOk /\ a.driverVendorOk /\ a.driverVersionOk)

\* driverVersion[slot]: parsed only when the adapter's info is there.
SystemDriverVersion(m, slot) ==
  IF AdapterInfoFailed(m, slot) THEN ZeroVersion
  ELSE ParseDriverVersion(m.adapters[slot].driverVersion).version

SystemRefreshRateStatus(m) ==
  IF m.screenCount <= 1 THEN "Single"
  ELSE IF m.minRefreshRate = m.maxRefreshRate THEN "MultipleSame"
  ELSE "Mixed"

\* One pass of the loop body for rule r: "continue" (next rule), "break"
\* (the loop is left with the status unchanged) or "win" (the status and the
\* failure id are set from the rule and the loop is left).
RuleStep(build, m, r, aFeature, os, aForAllowing) ==
  LET slot == IF r.mGpu2 THEN 2 ELSE 1
      a == m.adapters[slot]
      windowProtocol == IF Succeeded(m.windowProtocolRv) THEN m.windowProtocol ELSE ""
      hasBattery == IF Succeeded(m.hasBatteryRv) THEN m.hasBattery ELSE FALSE
      lookup == IF DevicesIsEmpty(r.mDevices) THEN "NS_OK"
                ELSE DevicesContains(r.mDevices, a.device)
      match == IF HasDriverVersions(build)
               THEN DriverVersionMatch(r.mComparisonOp, SystemDriverVersion(m, slot),
                                       r.mDriverVersion, r.mDriverVersionMax)
               ELSE TRUE
  IN
  IF MatchingAllowStatus(r.mFeatureStatus) # aForAllowing THEN "continue"
  ELSE IF AdapterInfoFailed(m, slot) THEN "continue"
  ELSE IF ~MatchingOperatingSystems(build, r.mOperatingSystem, os) THEN "continue"
  ELSE IF r.mOperatingSystemVersion # 0 /\ r.mOperatingSystemVersion # m.osVersion
       THEN "continue"
  ELSE IF ~VersionExCompare(m.osVersionEx, r.mOperatingSystemVersionEx,
                            r.mOperatingSystemVersionExMax,
                            r.mOperatingSystemVersionExComparisonOp) THEN "continue"
  ELSE IF ~MatchingRefreshRateStatus(SystemRefreshRateStatus(m), r.mRefreshRateStatus)
       THEN "continue"
  ELSE IF m.screenCount > 0
          /\ ~MatchingRefreshRates(m.minRefreshRate, r.mMinRefreshRate,
                                   r.mMinRefreshRateMax, r.mMinRefreshRateComparisonOp)
       THEN "continue"
  ELSE IF m.screenCount > 0
          /\ ~MatchingRefreshRates(m.maxRefreshRate, r.mMaxRefreshRate,
                                   r.mMaxRefreshRateMax, r.mMaxRefreshRateComparisonOp)
       THEN "continue"
  ELSE IF ~MatchingBattery(r.mBattery, hasBattery) THEN "continue"
  ELSE IF ~MatchingScreenSize(r.mScreen, m.screenPixels) THEN "continue"
  ELSE IF ~DoesWindowProtocolMatch(r.mWindowProtocol, windowProtocol) THEN "continue"
  ELSE IF ~DoesVendorMatch(r.mAdapterVendor, a.vendor) THEN "continue"
  ELSE IF ~DoesDriverVendorMatch(r.mDriverVendor, a.driverVendor) THEN "continue"
  ELSE IF lookup = "NS_ERROR_NOT_AVAILABLE" THEN "continue"
  ELSE IF lookup # "NS_OK" THEN (IF aForAllowing THEN "continue" ELSE "break")
  ELSE IF r.mHardware # "" /\ r.mHardware # m.hardware THEN "continue"
  ELSE IF r.mModel # "" /\ r.mModel # m.model THEN "continue"
  ELSE IF r.mProduct # "" /\ r.mProduct # m.product THEN "continue"
  ELSE IF r.mManufacturer # "" /\ r.mManufacturer # m.manufacturer THEN "continue"
  ELSE IF (match \/ r.mDriverVersion = allDriverVersions)
          /\ ( \/ r.mFeature = allFeatures
               \/ r.mFeature = aFeature
               \/ (r.mFeature = optionalFeatures
                   /\ OnlyAllowFeatureOnKnownConfig(aFeature)) )
       THEN "win"
  ELSE "continue"

\* The value of i when the loop is left: the first rule whose step is not
\* "continue", or info.Length() + 1 (1-based) when every step is.
LoopExit(build, m, info, aFeature, os, aForAllowing) ==
  LET stops == { i \in 1..Len(info) :
                   RuleStep(build, m, info[i], aFeature, os, aForAllowing) # "continue" }
  IN IF stops = {} THEN Len(info) + 1
     ELSE CHOOSE i \in stops : \A j \in stops : i <= j

\* The hard-coded block applied whatever status the loop has left.
Nv310MBlockAlways(build, m, status, aFeature) ==
  /\ build = "XP_WIN"
  /\ aFeature = FEATURE_DIRECT2D
  /\ ~AdapterInfoFailed(m, 2)
  /\ EqualsIgnoreCase(VendorNVIDIA, m.adapters[2].vendor)
  /\ EqualsIgnoreCase("0x0A70", m.adapters[2].device)

\* The hard-coded block of D2D on an NVidia 310M secondary adapter (XP_WIN).
Nv310MBlock(build, m, status, aFeature) ==
  /\ build = "XP_WIN"
  /\ status = FEATURE_STATUS_UNKNOWN
  /\ aFeature = FEATURE_DIRECT2D
  /\ ~AdapterInfoFailed(m, 2)
  /\ EqualsIgnoreCase(VendorNVIDIA, m.adapters[2].vendor)
  /\ EqualsIgnoreCase("0x0A70", m.adapters[2].device)

\* A suggestion that is made of the bound for LESS_THAN_OR_EQUAL as well.
SuggestedVersionOfAnyLess(r) ==
  IF r.mSuggestedVersion # "" THEN r.mSuggestedVersion
  ELSE IF r.mComparisonOp \in {DRIVER_LESS_THAN, DRIVER_LESS_THAN_OR_EQUAL}
          /\ r.mDriverVersion # allDriverVersions
       THEN FormatVersion(r.mDriverVersion)
  ELSE ""

\* What the XP_WIN block appends to aSuggestedVersion for rule r.
SuggestedVersionOf(r) ==
  IF r.mSuggestedVersion # "" THEN r.mSuggestedVersion
  ELSE IF r.mComparisonOp = DRIVER_LESS_THAN /\ r.mDriverVersion # allDriverVersions
       THEN FormatVersion(r.mDriverVersion)
  ELSE ""

\* The result: the returned status, aFailureId and aSuggestedVersion as the
\* call leaves them, and the index the loop stopped at.
FindResult(status, failureId, suggested, i) ==
  [status |-> status, failureId |-> failureId, suggested |-> suggested, i |-> i]

\* The XP_WIN block after the loop: the suggested version of rule i is
\* appended when the status is BLOCKED_DRIVER_VERSION.
FindSuggestedVersion(build, info, aSuggestedVersion, i, status, failureId) ==
  FindResult(status, failureId,
             IF build = "XP_WIN" /\ status = FEATURE_BLOCKED_DRIVER_VERSION
             THEN aSuggestedVersion \o SuggestedVersionOf(info[i])
             ELSE aSuggestedVersion,
             i)

\* The code after the loop, with the status and failure id the loop left.
FindAfterLoop(build, m, info, aSuggestedVersion, aFeature, i, status, failureId) ==
  IF Nv310MBlock(build, m, status, aFeature)
  THEN FindSuggestedVersion(build, info, aSuggestedVersion, i,
                            FEATURE_BLOCKED_DEVICE, "FEATURE_FAILURE_D2D_NV310M_BLOCK")
  ELSE FindSuggestedVersion(build, info, aSuggestedVersion, i, status, failureId)

\* The end of the loop at index i: rule i has won, or no rule has.
FindLoopEnd(build, m, info, aSuggestedVersion, aFeature, aFailureId, i, won) ==
  FindAfterLoop(build, m, info, aSuggestedVersion, aFeature, i,
                IF won THEN info[i].mFeatureStatus ELSE FEATURE_STATUS_UNKNOWN,
                IF ~won THEN aFailureId
                ELSE IF info[i].mRuleId # "" THEN info[i].mRuleId
                ELSE "FEATURE_FAILURE_DL_BLOCKLIST_NO_ID")

FindLoop(build, m, info, aSuggestedVersion, aFeature, aFailureId, os, aForAllowing, i) ==
  FindLoopEnd(build, m, info, aSuggestedVersion, aFeature, aFailureId, i,
              i <= Len(info)
                /\ RuleStep(build, m, info[i], aFeature, os, aForAllowing) = "win")

FindBlocklistedDeviceInList(build, m, info, aSuggestedVersion, aFeature, aFailureId, os, aForAllowing) ==
  IF HardFailure(m.windowProtocolRv) \/ HardFailure(m.hasBatteryRv)
     \/ (AdapterInfoFailed(m, 1) /\ AdapterInfoFailed(m, 2))
  THEN FindResult(FEATURE_STATUS_INVALID, aFailureId, aSuggestedVersion, 0)
  ELSE FindLoop(build, m, info, aSuggestedVersion, aFeature, aFailureId, os,
                aForAllowing,
                LoopExit(build, m, info, aFeature, os, aForAllowing))

-----------------------------------------------------------------------------
(* GfxInfoBase::GetFeatureStatusImpl.  aStatus, aSuggestedVersion and       *)
(* aFailureId are the values the caller passes in; the result holds them    *)
(* as the call leaves them, and `scans` names the rule lists it scanned.    *)

\* A check of the primary adapter that forgets the driver version.
AdapterResolvedWithoutVersion(m) ==
  LET a == m.adapters[1] IN a.vendorOk /\ a.deviceOk

\* The primary adapter's vendor id, device id and driver version are there.
AdapterResolved(m) ==
  LET a == m.adapters[1] IN a.vendorOk /\ a.deviceOk /\ a.driverVersionOk

\* The initial value of a scan log: nothing scanned.
NoScans == << >>

ImplResult(aStatus, aSuggestedVersion, aFailureId, scans) ==
  [ rv |-> "NS_OK", status |-> aStatus, suggested |-> aSuggestedVersion,
    failureId |-> aFailureId, scans |-> scans ]

\* The allowlist scan's outcome: DENIED when no allow rule matched.
ImplAllowlisted(list, alw) ==
  ImplResult(IF alw.status = FEATURE_STATUS_UNKNOWN THEN FEATURE_DENIED
             ELSE alw.status,
             alw.suggested, alw.failureId,
             << [list |-> list, forAllowing |-> FALSE],
                [list |-> list, forAllowing |-> TRUE] >>)

\* The code after the blocking scan returned blk.
ImplBlocklisted(build, m, info, list, aFeature, aOS, blk) ==
  IF blk.status # FEATURE_STATUS_UNKNOWN
  THEN ImplResult(blk.status, blk.suggested, blk.failureId,
                  << [list |-> list, forAllowing |-> FALSE] >>)
  ELSE IF ~IsFeatureAllowlisted(aFeature)
  THEN ImplResult(FEATURE_STATUS_OK, blk.suggested, blk.failureId,
                  << [list |-> list, forAllowing |-> FALSE] >>)
  ELSE ImplAllowlisted(list,
                       FindBlocklistedDeviceInList(build, m, info, blk.suggested,
                                                   aFeature, blk.failureId, aOS, TRUE))

\* The scans of the one list chosen: the downloaded rules or the static table.
ImplScan(build, m, info, list, aFeature, aSuggestedVersion, aFailureId, aOS) ==
  ImplBlocklisted(build, m, info, list, aFeature, aOS,
                  FindBlocklistedDeviceInList(build, m, info, aSuggestedVersion,
                                              aFeature, aFailureId, aOS, FALSE))

\* A GetFeatureStatusImpl without the sShutdownOccurred return.
GetFeatureStatusImplUnguarded(build, m, staticInfo, shutdown, aFeature, aStatus, aSuggestedVersion, aDriverInfo, aFailureId, aOS) ==
  IF aStatus # FEATURE_STATUS_UNKNOWN
  THEN ImplResult(aStatus, aSuggestedVersion, aFailureId, NoScans)
  ELSE IF ~AdapterResolved(m)
  THEN IF OnlyAllowFeatureOnKnownConfig(aFeature)
       THEN ImplResult(FEATURE_BLOCKED_DEVICE, aSuggestedVersion,
                       "FEATURE_FAILURE_CANT_RESOLVE_ADAPTER", NoScans)
       ELSE ImplResult(FEATURE_STATUS_OK, aSuggestedVersion, aFailureId, NoScans)
  ELSE IF Len(aDriverInfo) > 0
  THEN ImplScan(build, m, aDriverInfo, "downloaded", aFeature, aSuggestedVersion,
                aFailureId, aOS)
  ELSE ImplScan(build, m, staticInfo, "static", aFeature, aSuggestedVersion,
                aFailureId, aOS)

\* A GetFeatureStatusImpl that scans the static table whenever it has rules,
\* and the downloaded rules only when it has none.
GetFeatureStatusImplStaticFirst(build, m, staticInfo, shutdown, aFeature, aStatus, aSuggestedVersion, aDriverInfo, aFailureId, aOS) ==
  IF aStatus # FEATURE_STATUS_UNKNOWN
  THEN ImplResult(aStatus, aSuggestedVersion, aFailureId, NoScans)
  ELSE IF shutdown
  THEN ImplResult(aStatus, aSuggestedVersion, aFailureId, NoScans)
  ELSE IF ~AdapterResolved(m)
  THEN IF OnlyAllowFeatureOnKnownConfig(aFeature)
       THEN ImplResult(FEATURE_BLOCKED_DEVICE, aSuggestedVersion,
                       "FEATURE_FAILURE_CANT_RESOLVE_ADAPTER", NoScans)
       ELSE ImplResult(FEATURE_STATUS_OK, aSuggestedVersion, aFailureId, NoScans)
  ELSE IF Len(staticInfo) = 0
  THEN ImplScan(build, m, aDriverInfo, "downloaded", aFeature, aSuggestedVersion,
                aFailureId, aOS)
  ELSE ImplScan(build, m, staticInfo, "static", aFeature, aSuggestedVersion,
                aFailureId, aOS)

GetFeatureStatusImpl(build, m, staticInfo, shutdown, aFeature, aStatus, aSuggestedVersion, aDriverInfo, aFailureId, aOS) ==
  IF aStatus # FEATURE_STATUS_UNKNOWN
  THEN ImplResult(aStatus, aSuggestedVersion, aFailureId, NoScans)
  ELSE IF shutdown
  THEN ImplResult(aStatus, aSuggestedVersion, aFailureId, NoScans)
  ELSE IF ~AdapterResolved(m)
  THEN IF OnlyAllowFeatureOnKnownConfig(aFeature)
       THEN ImplResult(FEATURE_BLOCKED_DEVICE, aSuggestedVersion,
                       "FEATURE_FAILURE_CANT_RESOLVE_ADAPTER", NoScans)
       ELSE ImplResult(FEATURE_STATUS_OK, aSuggestedVersion, aFailureId, NoScans)
  ELSE IF Len(aDriverInfo) > 0
  THEN ImplScan(build, m, aDriverInfo, "downloaded", aFeature, aSuggestedVersion,
                aFailureId, aOS)
  ELSE ImplScan(build, m, staticInfo, "static", aFeature, aSuggestedVersion,
                aFailureId, aOS)

-----------------------------------------------------------------------------
(* The text format of a downloaded rule.  A record is the sequence of its   *)
(* tab-separated items; an item is the sequence of the parts a ':' splits   *)
(* it into, empty parts included.  A batch is the sequence of its records.  *)

\* ParseString(aSource, aDelimiter, aArray): the non-empty tokens.
ParseString(parts) == SelectSeq(parts, LAMBDA t : t # "")

\* ParseString(value, ',', ...) on the comma lists the model uses.
SplitComma(s) ==
  CASE s = "0x2582,0x2782" -> <<"0x2582", "0x2782">>
    [] s = "42.0a1,45.0" -> <<"42.0a1", "45.0">>
    [] s = "0,45.0" -> <<"0", "45.0">>
    [] s = "100.0,0" -> <<"100.0", "0">>
    [] s = "," -> << >>
    [] OTHER -> <<s>>

\* mozilla::Version's order on the version strings the model uses.
VersionOrd(s) ==
  CASE s = "42.0a1" -> 4199
    [] s = "45.0" -> 4500
    [] s = "100.0" -> 10000
    [] s = "128.0" -> 12800
    [] OTHER -> 0

\* strtoul(value, nullptr, 10) on the numbers the model uses.
StrToUL(s) ==
  CASE s = "10" -> 10
    [] s = "59" -> 59
    [] s = "60" -> 60
    [] s = "144" -> 144
    [] OTHER -> 0

\* A conversion that takes a name it does not know for every Windows.
BlocklistOSToOperatingSystemLenient(os) ==
  CASE os = "WINNT 10.0" -> "Windows10"
    [] os = "WINNT 6.0" -> "WindowsVista"
    [] os = "Linux" -> "Linux"
    [] os = "Darwin" -> "OSX"
    [] OTHER -> "Windows"

BlocklistOSToOperatingSystem(os) ==
  CASE os = "WINNT 10.0" -> "Windows10"
    [] os = "WINNT 6.0" -> "WindowsVista"
    [] os = "All" -> "Windows"
    [] os = "Linux" -> "Linux"
    [] os = "Darwin" -> "OSX"
    [] OTHER -> "Unknown"

BlocklistToRefreshRateStatus(refreshRateStatus) ==
  IF refreshRateStatus \in {"Any", "AnySame", "Mixed", "MultipleSame", "Single"}
  THEN refreshRateStatus ELSE "Unknown"

BlocklistFeatureToGfxFeature(aFeature) ==
  IF aFeature \in Features \cup {allFeatures, optionalFeatures}
  THEN aFeature ELSE FEATURE_INVALID

BlocklistFeatureStatusToGfxFeatureStatus(aStatus) ==
  IF aStatus \in FeatureStatusDefs THEN aStatus ELSE FEATURE_STATUS_OK

BlocklistComparatorToComparisonOp(op) ==
  IF op \in DriverVersionCmpDefs THEN op ELSE DRIVER_COMPARISON_IGNORED

BlocklistDevicesToDeviceFamily(devices) ==
  IF Len(devices) = 0 THEN NoDevices
  ELSE [ids |-> { devices[i] : i \in 1..Len(devices) }, ranges |-> {}]

\* The versionRange check: the record is for this application version.
VersionRangeApplies(appV, minValue, maxValue) ==
  /\ ~(VersionOrd(minValue) > 0 /\ ~(VersionOrd(appV) >= VersionOrd(minValue)))
  /\ ~(VersionOrd(maxValue) > 0 /\ ~(VersionOrd(appV) <= VersionOrd(maxValue)))

\* The branch of the key chain for one (key, value): the rule it leaves, or
\* rejection.
ApplyKey(appV, di, key, value) ==
  LET ok(d) == [ok |-> TRUE, di |-> d]
      rejected == [ok |-> FALSE, di |-> di]
  IN
  CASE key = "blockID" ->
         ok([di EXCEPT !.mRuleId = "FEATURE_FAILURE_DL_BLOCKLIST_" \o value])
    [] key = "os" ->
         ok([di EXCEPT !.mOperatingSystem = BlocklistOSToOperatingSystem(value)])
    [] key = "osversion" -> ok([di EXCEPT !.mOperatingSystemVersion = StrToUL(value)])
    [] key = "osVersionEx" ->
         ok([di EXCEPT !.mOperatingSystemVersionEx = ParseDriverVersion(value).version])
    [] key = "osVersionExMax" ->
         ok([di EXCEPT !.mOperatingSystemVersionExMax = ParseDriverVersion(value).version])
    [] key = "osVersionExComparator" ->
         ok([di EXCEPT !.mOperatingSystemVersionExComparisonOp =
                          BlocklistComparatorToComparisonOp(value)])
    [] key = "refreshRateStatus" ->
         ok([di EXCEPT !.mRefreshRateStatus = BlocklistToRefreshRateStatus(value)])
    [] key = "minRefreshRate" -> ok([di EXCEPT !.mMinRefreshRate = StrToUL(value)])
    [] key = "minRefreshRateMax" -> ok([di EXCEPT !.mMinRefreshRateMax = StrToUL(value)])
    [] key = "minRefreshRateComparator" ->
         ok([di EXCEPT !.mMinRefreshRateComparisonOp =
                          BlocklistComparatorToComparisonOp(value)])
    [] key = "maxRefreshRate" -> ok([di EXCEPT !.mMaxRefreshRate = StrToUL(value)])
    [] key = "maxRefreshRateMax" -> ok([di EXCEPT !.mMaxRefreshRateMax = StrToUL(value)])
    [] key = "maxRefreshRateComparator" ->
         ok([di EXCEPT !.mMaxRefreshRateComparisonOp =
                          BlocklistComparatorToComparisonOp(value)])
    [] key = "windowProtocol" -> ok([di EXCEPT !.mWindowProtocol = value])
    [] key = "vendor" -> ok([di EXCEPT !.mAdapterVendor = value])
    [] key = "driverVendor" -> ok([di EXCEPT !.mDriverVendor = value])
    [] key = "feature" ->
         IF BlocklistFeatureToGfxFeature(value) = FEATURE_INVALID THEN rejected
         ELSE ok([di EXCEPT !.mFeature = BlocklistFeatureToGfxFeature(value)])
    [] key = "featureStatus" ->
         ok([di EXCEPT !.mFeatureStatus = BlocklistFeatureStatusToGfxFeatureStatus(value)])
    [] key = "driverVersion" ->
         IF ParseDriverVersion(value).ok
         THEN ok([di EXCEPT !.mDriverVersion = ParseDriverVersion(value).version])
         ELSE ok(di)
    [] key = "driverVersionMax" ->
         IF ParseDriverVersion(value).ok
         THEN ok([di EXCEPT !.mDriverVersionMax = ParseDriverVersion(value).version])
         ELSE ok(di)
    [] key = "driverVersionComparator" ->
         ok([di EXCEPT !.mComparisonOp = BlocklistComparatorToComparisonOp(value)])
    [] key = "model" -> ok([di EXCEPT !.mModel = value])
    [] key = "product" -> ok([di EXCEPT !.mProduct = value])
    [] key = "manufacturer" -> ok([di EXCEPT !.mManufacturer = value])
    [] key = "hardware" -> ok([di EXCEPT !.mHardware = value])
    [] key = "versionRange" ->
         IF Len(SplitComma(value)) # 2 THEN rejected
         ELSE IF ~VersionRangeApplies(appV, SplitComma(value)[1], SplitComma(value)[2])
         THEN rejected
         ELSE ok(di)
    [] key = "devices" ->
         ok([di EXCEPT !.mDevices = BlocklistDevicesToDeviceFamily(SplitComma(value))])
    [] OTHER -> ok(di)

\* The loop over the items of a record, from item k on.
RECURSIVE ParseItems(_, _, _, _)
ParseItems(appV, entry, k, di) ==
  IF k > Len(entry) THEN [ok |-> TRUE, di |-> di]
  ELSE
    LET splitted == ParseString(entry[k]) IN
    IF Len(splitted) # 2 THEN [ok |-> FALSE, di |-> di]
    ELSE
      LET step == ApplyKey(appV, di, splitted[1], splitted[2]) IN
      IF ~step.ok THEN step ELSE ParseItems(appV, entry, k + 1, step.di)

BlocklistEntryToDriverInfo(appV, aBlocklistEntry) ==
  ParseItems(appV, aBlocklistEntry, 1,
             [DefaultDriverInfo EXCEPT !.mRuleId = "FEATURE_FAILURE_DL_BLOCKLIST_NO_ID"])

\* A loop over the records that gives up at the first record that does not
\* parse.
RECURSIVE ParseBatchStopping(_, _)
ParseBatchStopping(appV, batch) ==
  IF batch = << >> THEN << >>
  ELSE LET p == BlocklistEntryToDriverInfo(appV, Head(batch)) IN
       IF p.ok THEN <<p.di>> \o ParseBatchStopping(appV, Tail(batch)) ELSE << >>

\* GfxInfoBase::Observe's loop: the rules of the records that parse, in order.
RECURSIVE ParseBatch(_, _)
ParseBatch(appV, batch) ==
  IF batch = << >> THEN << >>
  ELSE LET p == BlocklistEntryToDriverInfo(appV, Head(batch)) IN
       (IF p.ok THEN <<p.di>> ELSE << >>) \o ParseBatch(appV, Tail(batch))

-----------------------------------------------------------------------------
(* The preference store.  p.value[f] is the integer pref of feature f,      *)
(* p.failureid[f] its ".failureid" pref, p.suggested the suggested driver   *)
(* version pref; NoPref marks a pref that has no value.  s is the pair of   *)
(* the store and the process's sFeatureStatus, which the setters reset.     *)

EmptyPrefs ==
  [ value |-> [f \in Features |-> NoPref],
    failureid |-> [f \in Features |-> NoPref],
    suggested |-> NoPref ]

\* A lookup that never finds an entry: with it in place of
\* GetPrefValueForFeature a stored entry no longer decides the status.
GetPrefValueForFeatureNotFound(p, aFeature, aFailureId) ==
  [found |-> FALSE, value |-> FEATURE_STATUS_UNKNOWN, failureId |-> aFailureId]

\* GetPrefValueForFeature: (found, aValue, aFailureId) as the call leaves them.
GetPrefValueForFeature(p, aFeature, aFailureId) ==
  IF p.value[aFeature] = NoPref
  THEN [found |-> FALSE, value |-> FEATURE_STATUS_UNKNOWN, failureId |-> aFailureId]
  ELSE IF p.value[aFeature] = FEATURE_DENIED
  THEN [found |-> FALSE, value |-> FEATURE_DENIED, failureId |-> aFailureId]
  ELSE [ found |-> TRUE, value |-> p.value[aFeature],
         failureId |-> IF p.failureid[aFeature] # NoPref THEN p.failureid[aFeature]
                       ELSE "FEATURE_FAILURE_BLOCKLIST_PREF" ]

\* A set(feature) that leaves sFeatureStatus alone.
SetPrefValueForFeatureKeepingCache(s, isParent, aFeature, aValue, aFailureId) ==
  [ prefs |-> [ s.prefs EXCEPT
                  !.value[aFeature] = aValue,
                  !.failureid[aFeature] =
                     IF aFailureId # "" THEN aFailureId ELSE @ ],
    snapshot |-> s.snapshot ]

SetPrefValueForFeature(s, isParent, aFeature, aValue, aFailureId) ==
  [ prefs |-> [ s.prefs EXCEPT
                  !.value[aFeature] = aValue,
                  !.failureid[aFeature] =
                     IF aFailureId # "" THEN aFailureId ELSE @ ],
    snapshot |-> IF isParent THEN NULL ELSE s.snapshot ]

\* A clear(feature) that leaves sFeatureStatus alone.
RemovePrefForFeatureKeepingCache(s, isParent, aFeature) ==
  [ prefs |-> [s.prefs EXCEPT !.value[aFeature] = NoPref],
    snapshot |-> s.snapshot ]

RemovePrefForFeature(s, isParent, aFeature) ==
  [ prefs |-> [s.prefs EXCEPT !.value[aFeature] = NoPref],
    snapshot |-> IF isParent THEN NULL ELSE s.snapshot ]

GetPrefValueForDriverVersion(p) ==
  [found |-> p.suggested # NoPref, version |-> p.suggested]

\* A slot write that appends to the version already stored.
SetPrefValueForDriverVersionAppending(s, aVersion) ==
  [s EXCEPT !.prefs.suggested = IF @ = NoPref THEN aVersion ELSE @ \o aVersion]

SetPrefValueForDriverVersion(s, aVersion) ==
  [s EXCEPT !.prefs.suggested = aVersion]

RemovePrefForDriverVersion(s) ==
  [s EXCEPT !.prefs.suggested = NoPref]

-----------------------------------------------------------------------------
(* GfxInfoBase::GetFeatureStatus.  e is the environment, p the preference   *)
(* store, snapshot the calling process's sFeatureStatus.  `reads` names     *)
(* what the call consulted: "prefs", "snapshot", "rules".                   *)

StatusResult(rv, status, failureId, reads) ==
  [rv |-> rv, status |-> status, failureId |-> failureId, reads |-> reads]

\* The loop over *sFeatureStatus: the first entry of the feature, if any.
SnapshotLookup(snapshot, aFeature) ==
  LET hits == { i \in 1..Len(snapshot) : snapshot[i].feature = aFeature } IN
  IF hits = {} THEN [found |-> FALSE]
  ELSE LET i == CHOOSE i \in hits : \A j \in hits : i <= j IN
       [found |-> TRUE, status |-> snapshot[i].status,
        failureId |-> snapshot[i].failureId]

\* What a rule-table consultation read: the store, and the rules if scanned.
ReadsOfImpl(r) == IF r.scans = NoScans THEN {"prefs"} ELSE {"prefs", "rules"}

\* The parent's fall-through to GetFeatureStatusImpl, which returned r.
StatusOfImpl(r) == StatusResult(r.rv, r.status, r.failureId, ReadsOfImpl(r))

\* A loop over *sFeatureStatus that reports success whether or not it found
\* an entry.
StatusOfSnapshotLenient(pref, fs) ==
  IF fs.found
  THEN StatusResult("NS_OK", fs.status, fs.failureId, {"prefs", "snapshot"})
  ELSE StatusResult("NS_OK", pref.value, pref.failureId, {"prefs", "snapshot"})

\* The child's loop over *sFeatureStatus, which found fs.
StatusOfSnapshot(pref, fs) ==
  IF fs.found
  THEN StatusResult("NS_OK", fs.status, fs.failureId, {"prefs", "snapshot"})
  ELSE StatusResult("NS_ERROR_FAILURE", pref.value, pref.failureId,
                    {"prefs", "snapshot"})

\* The code after GetPrefValueForFeature returned pref.
StatusAfterPref(isParent, e, snapshot, shutdown, aFeature, pref) ==
  IF pref.found
  THEN StatusResult("NS_OK", pref.value, pref.failureId, {"prefs"})
  ELSE IF ~isParent
  THEN \* XRE_IsContentProcess() || XRE_IsGPUProcess()
       IF snapshot = NULL
       THEN StatusResult("CRASH", pref.value, pref.failureId, {"prefs", "snapshot"})
       ELSE StatusOfSnapshot(pref, SnapshotLookup(snapshot, aFeature))
  ELSE StatusOfImpl(GetFeatureStatusImpl(e.build, e.machine, e.staticInfo, shutdown,
                                         aFeature, pref.value, "", << >>,
                                         pref.failureId, e.machine.implOS))

\* A blocklistAll that takes no notice of gfx.blocklist.all on any build.
BlocklistAllIgnored(e) == 0

\* The local blocklistAll of GetFeatureStatus: gfx.blocklist.all as it was at
\* startup, and 0 on a build with RELEASE_OR_BETA defined.
BlocklistAll(e) == IF e.releaseOrBeta THEN 0 ELSE e.blocklistAll

GetFeatureStatus(isParent, e, p, snapshot, shutdown, aFeature, aFailureId) ==
  IF BlocklistAll(e) > 0
  THEN StatusResult("NS_OK", FEATURE_BLOCKED_DEVICE, "FEATURE_FAILURE_BLOCK_ALL", {})
  ELSE IF BlocklistAll(e) < 0
  THEN StatusResult("NS_OK", FEATURE_STATUS_OK, aFailureId, {})
  ELSE StatusAfterPref(isParent, e, snapshot, shutdown, aFeature,
                       GetPrefValueForFeature(p, aFeature, aFailureId))

\* The entry GetAllFeatures appends for a feature whose status call gave r.
FeatureStatusEntry(aFeature, r) ==
  [feature |-> aFeature, status |-> r.status, failureId |-> r.failureId]

\* The loop of GetAllFeatures that fills a new sFeatureStatus, from feature
\* k of the enumeration on.
RECURSIVE BuildFeatureStatus(_, _, _, _)
BuildFeatureStatus(e, p, shutdown, k) ==
  IF k > Len(FeatureOrder) THEN << >>
  ELSE << FeatureStatusEntry(FeatureOrder[k],
                             GetFeatureStatus(TRUE, e, p, << >>, shutdown,
                                              FeatureOrder[k], "")) >>
         \o BuildFeatureStatus(e, p, shutdown, k + 1)

\* A GetAllFeatures that fills sFeatureStatus anew on every call.
GetAllFeaturesRebuilding(e, p, snapshot, shutdown) ==
  BuildFeatureStatus(e, p, shutdown, 1)

\* sFeatureStatus as GetAllFeatures leaves it; the copy it returns is equal.
GetAllFeatures(e, p, snapshot, shutdown) ==
  IF snapshot = NULL THEN BuildFeatureStatus(e, p, shutdown, 1) ELSE snapshot

\* The version GetFeatureStatusImpl left in aVersion, after r was returned.
SuggestedOfImpl(r) ==
  [rv |-> r.rv, version |-> r.suggested, reads |-> ReadsOfImpl(r)]

\* GetFeatureSuggestedDriverVersion: (rv, aVersion), and what it consulted.
GetFeatureSuggestedDriverVersion(e, p, shutdown, aFeature, aStatus) ==
  IF GetPrefValueForDriverVersion(p).found
  THEN [rv |-> "NS_OK", version |-> GetPrefValueForDriverVersion(p).version,
        reads |-> {"prefs"}]
  ELSE SuggestedOfImpl(GetFeatureStatusImpl(e.build, e.machine, e.staticInfo,
                                            shutdown, aFeature, aStatus, "", << >>,
                                            "", "Unknown"))

-----------------------------------------------------------------------------
(* GfxInfoBase::EvaluateDownloadedBlocklist (parent process).               *)

\* int32_t status = nsIGfxInfo::FEATURE_STATUS_UNKNOWN, for each feature.
ApplyInitialStatus(p, aFeature) == FEATURE_STATUS_UNKNOWN

\* One write of the store and whether a cached sFeatureStatus survived it.
Write(op, s) == [op |-> op, cached |-> s.snapshot # NULL]

\* The store s a write `op` left, appended to the writes made before it.
Written(s, op, before) == [s |-> s, writes |-> Append(before, Write(op, s))]

\* A BLOCKED_DRIVER_VERSION case that always removes the suggested version.
DriverVersionWriteRemoving(s, suggestedVersion) ==
  Written(RemovePrefForDriverVersion(s), "RemovePrefForDriverVersion", << >>)

\* case FEATURE_BLOCKED_DRIVER_VERSION: the suggested version pref is set
\* when the scan left a version, removed when it left none.
DriverVersionWrite(s, suggestedVersion) ==
  IF suggestedVersion # ""
  THEN Written(SetPrefValueForDriverVersion(s, suggestedVersion),
               "SetPrefValueForDriverVersion", << >>)
  ELSE Written(RemovePrefForDriverVersion(s), "RemovePrefForDriverVersion", << >>)

\* What one pass of the switch leaves: the store and cache, the writes made
\* in order, and whether the pass went through `default:`.
Outcome(w, unhandled) == [s |-> w.s, writes |-> w.writes, unhandled |-> unhandled]

\* The blocked and discouraged cases: SetPrefValueForFeature after the
\* writes w made so far.
StoreBlocked(w, aFeature, status, failureId) ==
  Outcome(Written(SetPrefValueForFeature(w.s, TRUE, aFeature, status, failureId),
                  "SetPrefValueForFeature", w.writes),
          FALSE)

\* A switch whose unblocked cases leave the stored entry where it is.
ApplyOutcomeKeeping(s, aFeature, status, failureId, suggestedVersion) ==
  IF status = FEATURE_BLOCKED_DRIVER_VERSION
  THEN StoreBlocked(DriverVersionWrite(s, suggestedVersion), aFeature, status,
                    failureId)
  ELSE IF status \in BlockedStatuses
  THEN StoreBlocked([s |-> s, writes |-> << >>], aFeature, status, failureId)
  ELSE Outcome([s |-> s, writes |-> << >>], FALSE)

\* A switch that stores the status of every case but UNKNOWN.
ApplyOutcomeStoringAll(s, aFeature, status, failureId, suggestedVersion) ==
  IF status = FEATURE_BLOCKED_DRIVER_VERSION
  THEN StoreBlocked(DriverVersionWrite(s, suggestedVersion), aFeature, status,
                    failureId)
  ELSE IF status # FEATURE_STATUS_UNKNOWN
  THEN StoreBlocked([s |-> s, writes |-> << >>], aFeature, status, failureId)
  ELSE Outcome(Written(RemovePrefForFeature(s, TRUE, aFeature),
                       "RemovePrefForFeature", << >>),
               FALSE)

\* The switch on the status of one feature.
ApplyOutcome(s, aFeature, status, failureId, suggestedVersion) ==
  IF status = FEATURE_BLOCKED_DRIVER_VERSION
  THEN StoreBlocked(DriverVersionWrite(s, suggestedVersion), aFeature, status,
                    failureId)
  ELSE IF status \in BlockedStatuses
  THEN StoreBlocked([s |-> s, writes |-> << >>], aFeature, status, failureId)
  ELSE Outcome(Written(RemovePrefForFeature(s, TRUE, aFeature),
                       "RemovePrefForFeature", << >>),
               status \notin { FEATURE_STATUS_UNKNOWN, FEATURE_ALLOW_ALWAYS,
                               FEATURE_ALLOW_QUALIFIED, FEATURE_DENIED,
                               FEATURE_STATUS_OK })

\* The loop over the features, from feature k of the enumeration on; trace
\* holds one entry per feature already handled.
RECURSIVE EvaluateFrom(_, _, _, _, _, _)

\* The end of one pass: the switch took the store from s to o.s for the
\* status call's result r.
EvaluateNext(e, shutdown, aDriverInfo, k, s, trace, r, o) ==
  EvaluateFrom(e, shutdown, aDriverInfo, k + 1, o.s,
               Append(trace,
                      [ feature |-> FeatureOrder[k], status |-> r.status,
                        failureId |-> r.failureId, suggested |-> r.suggested,
                        scans |-> r.scans, before |-> s.prefs, after |-> o.s.prefs,
                        writes |-> o.writes, unhandled |-> o.unhandled ]))

\* The switch of one pass, on the result r of the status call.
EvaluateFeature(e, shutdown, aDriverInfo, k, s, trace, r) ==
  EvaluateNext(e, shutdown, aDriverInfo, k, s, trace, r,
               ApplyOutcome(s, FeatureOrder[k], r.status, r.failureId, r.suggested))

EvaluateFrom(e, shutdown, aDriverInfo, k, s, trace) ==
  IF k > Len(FeatureOrder) THEN [s |-> s, trace |-> trace]
  ELSE EvaluateFeature(e, shutdown, aDriverInfo, k, s, trace,
                       GetFeatureStatusImpl(e.build, e.machine, e.staticInfo,
                                            shutdown, FeatureOrder[k],
                                            ApplyInitialStatus(s.prefs, FeatureOrder[k]),
                                            "", aDriverInfo, "", e.machine.os))

\* An apply without the aDriverInfo.IsEmpty() return.
EvaluateDownloadedBlocklistAlways(e, shutdown, s, aDriverInfo) ==
  EvaluateFrom(e, shutdown, aDriverInfo, 1, s, << >>)

EvaluateDownloadedBlocklist(e, shutdown, s, aDriverInfo) ==
  IF aDriverInfo = << >> THEN [s |-> s, trace |-> << >>]
  ELSE EvaluateFrom(e, shutdown, aDriverInfo, 1, s, << >>)

-----------------------------------------------------------------------------
(* The inputs: machines, static tables, environments, stored preferences    *)
(* and downloaded records.                                                  *)

Adapter(vendor, device, driverVersion) ==
  [ vendorOk |-> TRUE, deviceOk |-> TRUE, driverVendorOk |-> TRUE,
    driverVersionOk |-> TRUE, vendor |-> vendor, device |-> device,
    driverVendor |-> "", driverVersion |-> driverVersion ]

NoAdapter ==
  [ vendorOk |-> FALSE, deviceOk |-> FALSE, driverVendorOk |-> FALSE,
    driverVersionOk |-> FALSE, vendor |-> "", device |-> "",
    driverVendor |-> "", driverVersion |-> "" ]

\* A Windows 10 laptop with one Intel adapter.
WinMachine ==
  [ windowProtocolRv |-> "NS_ERROR_NOT_IMPLEMENTED", windowProtocol |-> "",
    hasBatteryRv |-> "NS_OK", hasBattery |-> TRUE,
    adapters |-> << Adapter("0x8086", "0x2582", "8.52.322.2200"), NoAdapter >>,
    os |-> "Windows10", implOS |-> "Windows10", osVersion |-> 10,
    osVersionEx |-> V(10, 0, 0, 3000),
    screenCount |-> 1, minRefreshRate |-> 60, maxRefreshRate |-> 60,
    screenPixels |-> 2304000,
    hardware |-> "", model |-> "", product |-> "", manufacturer |-> "" ]

\* The same machine reached through the base class alone: no OS is passed
\* to GetFeatureStatusImpl by GetFeatureStatus.
WinMachineBaseOS == [WinMachine EXCEPT !.implOS = "Unknown"]

\* The window protocol lookup fails.
WinMachineNoProtocol == [WinMachine EXCEPT !.windowProtocolRv = "NS_ERROR_FAILURE"]

\* The battery lookup fails.
WinMachineNoBattery == [WinMachine EXCEPT !.hasBatteryRv = "NS_ERROR_FAILURE"]

\* The primary adapter's driver vendor is missing and there is no second adapter.
WinMachineNoDriverVendor ==
  [WinMachine EXCEPT !.adapters[1].driverVendorOk = FALSE]

\* The same laptop with an NVidia 310M as its secondary adapter.
WinMachineNv310M ==
  [WinMachine EXCEPT !.adapters[2] = Adapter("0x10DE", "0x0A70", "9.0.0.100")]

\* No adapter can be resolved.
WinMachineNoAdapter == [WinMachine EXCEPT !.adapters = <<NoAdapter, NoAdapter>>]

\* The primary adapter reports a device id that is not a number.
WinMachineOddDevice == [WinMachine EXCEPT !.adapters[1].device = "unknown"]

LinuxMachine ==
  [ WinMachine EXCEPT !.windowProtocolRv = "NS_OK", !.windowProtocol = "wayland",
                      !.hasBatteryRv = "NS_ERROR_NOT_IMPLEMENTED",
                      !.adapters = << Adapter("0x8086", "0x2582", "8.52.322.2203"),
                                      NoAdapter >>,
                      !.os = "Linux", !.implOS = "Linux",
                      !.screenCount = 2, !.minRefreshRate = 60,
                      !.maxRefreshRate = 144, !.screenPixels = 4953601 ]

MacMachine ==
  [ WinMachine EXCEPT !.adapters = << Adapter("0x8086", "0x2582", ""), NoAdapter >>,
                      !.os = "OSX", !.implOS = "OSX" ]

\* GetGfxDriverInfo() of the Windows build in the model: an old-driver block
\* whose suggestion is the formatted bound, a device-range block and an
\* allowlist entry.
WinStaticInfo ==
  << [ DefaultDriverInfo EXCEPT
         !.mOperatingSystem = "Windows", !.mAdapterVendor = "0x8086",
         !.mFeature = FEATURE_DIRECT3D_11_ANGLE,
         !.mFeatureStatus = FEATURE_BLOCKED_DRIVER_VERSION,
         !.mComparisonOp = DRIVER_LESS_THAN,
         !.mDriverVersion = V(8, 52, 322, 2202),
         !.mRuleId = "FEATURE_FAILURE_OLD_INTEL" ],
     [ DefaultDriverInfo EXCEPT
         !.mOperatingSystem = "Windows10", !.mAdapterVendor = "0x8086",
         !.mDevices = [ids |-> {}, ranges |-> {<<9600, 9700>>}],
         !.mFeature = FEATURE_HW_DECODED_VIDEO_ZERO_COPY,
         !.mFeatureStatus = FEATURE_BLOCKED_DEVICE,
         !.mRuleId = "FEATURE_FAILURE_INTEL_RANGE" ],
     [ DefaultDriverInfo EXCEPT
         !.mOperatingSystem = "Windows10",
         !.mFeature = FEATURE_HW_DECODED_VIDEO_ZERO_COPY,
         !.mFeatureStatus = FEATURE_ALLOW_ALWAYS,
         !.mRuleId = "FEATURE_ROLLOUT_ALL" ] >>

LinuxStaticInfo ==
  << [ DefaultDriverInfo EXCEPT
         !.mOperatingSystem = "Linux", !.mWindowProtocol = "Wayland",
         !.mFeature = allFeatures, !.mFeatureStatus = FEATURE_DISCOURAGED,
         !.mRefreshRateStatus = "Mixed",
         !.mRuleId = "FEATURE_FAILURE_MIXED_RATES" ] >>

\* A machine on which no screen is known.
WinMachineNoScreen == [WinMachine EXCEPT !.screenCount = 0]

\* A static table whose rules carry comparison operators outside the
\* enumeration: on the driver version with a bound above the machine's
\* driver, on the driver version with the all-versions bound, and on the
\* minimum and the maximum refresh rate.
BogusOpStaticInfo(os) ==
  << [ DefaultDriverInfo EXCEPT
         !.mOperatingSystem = os, !.mFeature = FEATURE_DIRECT2D,
         !.mFeatureStatus = FEATURE_BLOCKED_DEVICE,
         !.mComparisonOp = DRIVER_BOGUS_OP, !.mDriverVersion = V(9, 0, 0, 100),
         !.mRuleId = "FEATURE_FAILURE_BOGUS_OP" ],
     [ DefaultDriverInfo EXCEPT
         !.mOperatingSystem = os, !.mFeature = FEATURE_DIRECT3D_11_ANGLE,
         !.mFeatureStatus = FEATURE_BLOCKED_DEVICE,
         !.mComparisonOp = DRIVER_BOGUS_OP, !.mDriverVersion = allDriverVersions,
         !.mRuleId = "FEATURE_FAILURE_BOGUS_OP_ALL_VERSIONS" ],
     [ DefaultDriverInfo EXCEPT
         !.mOperatingSystem = os, !.mFeature = FEATURE_HW_DECODED_VIDEO_ZERO_COPY,
         !.mFeatureStatus = FEATURE_BLOCKED_DEVICE,
         !.mMinRefreshRateComparisonOp = DRIVER_BOGUS_OP, !.mMinRefreshRate = 60,
         !.mRuleId = "FEATURE_FAILURE_BOGUS_MIN_RATE" ],
     [ DefaultDriverInfo EXCEPT
         !.mOperatingSystem = os, !.mFeature = FEATURE_HW_DECODED_VIDEO_ZERO_COPY,
         !.mFeatureStatus = FEATURE_ALLOW_ALWAYS,
         !.mMaxRefreshRateComparisonOp = DRIVER_BOGUS_OP, !.mMaxRefreshRate = 60,
         !.mRuleId = "FEATURE_ROLLOUT_BOGUS_MAX_RATE" ] >>

Environment(build, machine, staticInfo, blocklistAll) ==
  [ build |-> build, machine |-> machine, staticInfo |-> staticInfo,
    blocklistAll |-> blocklistAll, releaseOrBeta |-> FALSE ]

\* The environment e in a build with RELEASE_OR_BETA defined.
ReleaseOrBeta(e) == [e EXCEPT !.releaseOrBeta = TRUE]

\* The environments of the model, by name.
EnvironmentNames ==
  { "win", "win-block-all", "win-allow-all", "win-block-all-release",
    "win-base-os", "win-no-protocol",
    "win-no-battery", "win-no-driver-vendor", "win-nv310m",
    "win-no-adapter", "win-odd-device", "linux", "mac" }

EnvironmentOf(name) ==
  CASE name = "win" -> Environment("XP_WIN", WinMachine, WinStaticInfo, 0)
    [] name = "win-block-all" -> Environment("XP_WIN", WinMachine, WinStaticInfo, 1)
    [] name = "win-allow-all" -> Environment("XP_WIN", WinMachine, WinStaticInfo, -1)
    [] name = "win-block-all-release" ->
         ReleaseOrBeta(Environment("XP_WIN", WinMachine, WinStaticInfo, 1))
    [] name = "win-base-os" -> Environment("XP_WIN", WinMachineBaseOS, WinStaticInfo, 0)
    [] name = "win-no-protocol" ->
         Environment("XP_WIN", WinMachineNoProtocol, WinStaticInfo, 0)
    [] name = "win-no-battery" ->
         Environment("XP_WIN", WinMachineNoBattery, WinStaticInfo, 0)
    [] name = "win-no-driver-vendor" ->
         Environment("XP_WIN", WinMachineNoDriverVendor, WinStaticInfo, 0)
    [] name = "win-nv310m" ->
         Environment("XP_WIN", WinMachineNv310M, WinStaticInfo, 0)
    [] name = "win-no-adapter" ->
         Environment("XP_WIN", WinMachineNoAdapter, WinStaticInfo, 0)
    [] name = "win-odd-device" ->
         Environment("XP_WIN", WinMachineOddDevice, WinStaticInfo, 0)
    [] name = "linux" -> Environment("MOZ_WIDGET_GTK", LinuxMachine, LinuxStaticInfo, 0)
    [] name = "mac" -> Environment("XP_MACOSX", MacMachine, << >>, 0)
    [] name = "win-bogus-op" ->
         Environment("XP_WIN", WinMachine, BogusOpStaticInfo("Windows"), 0)
    [] name = "win-bogus-op-no-screen" ->
         Environment("XP_WIN", WinMachineNoScreen, BogusOpStaticInfo("Windows"), 0)
    [] name = "linux-bogus-op" ->
         Environment("MOZ_WIDGET_GTK", LinuxMachine, BogusOpStaticInfo("Linux"), 0)
    [] name = "mac-bogus-op" ->
         Environment("XP_MACOSX", MacMachine, BogusOpStaticInfo("OSX"), 0)

\* The environments whose static table holds the rules with operators
\* outside the enumeration.
BogusOpEnvironmentNames ==
  {"win-bogus-op", "win-bogus-op-no-screen", "linux-bogus-op", "mac-bogus-op"}

\* Preference stores a session may start with besides the empty one: values
\* left by an earlier session or written into the preferences directly.
StoredBlocks ==
  [ EmptyPrefs EXCEPT
      !.value[FEATURE_DIRECT2D] = FEATURE_BLOCKED_DEVICE,
      !.failureid[FEATURE_DIRECT2D] = "FEATURE_FAILURE_DL_BLOCKLIST_g0",
      !.value[FEATURE_DIRECT3D_11_ANGLE] = FEATURE_DISCOURAGED,
      !.suggested = "9.9.9.9" ]

StoredDenied ==
  [ EmptyPrefs EXCEPT
      !.value[FEATURE_DIRECT2D] = FEATURE_DENIED,
      !.failureid[FEATURE_DIRECT2D] = "FEATURE_FAILURE_DL_BLOCKLIST_g0",
      !.value[FEATURE_HW_DECODED_VIDEO_ZERO_COPY] = FEATURE_ALLOW_ALWAYS ]

\* The (environment, stored preferences) pairs a run starts from.
InitialConfigs ==
  { <<name, EmptyPrefs>> : name \in EnvironmentNames }
    \cup { <<"win", StoredBlocks>>, <<"win", StoredDenied>>,
           <<"win-block-all", StoredBlocks>>, <<"win-allow-all", StoredDenied>>,
           <<"win-block-all-release", StoredBlocks>>,
           <<"win-no-protocol", StoredBlocks>>, <<"win-no-adapter", StoredDenied>>,
           <<"linux", StoredBlocks>>, <<"mac", StoredBlocks>> }

\* The downloaded records of the model.
RecBlockD2D ==
  << <<"os", "WINNT 10.0">>, <<"vendor", "0X8086">>,
     <<"devices", "0x2582,0x2782">>, <<"feature", FEATURE_DIRECT2D>>,
     <<"featureStatus", FEATURE_BLOCKED_DEVICE>>, <<"blockID", "g1">> >>

RecOldDriver ==
  << <<"os", "All">>, <<"feature", FEATURE_DIRECT3D_11_ANGLE>>,
     <<"featureStatus", FEATURE_BLOCKED_DRIVER_VERSION>>,
     <<"driverVersion", "8.52.322.2202">>,
     <<"driverVersionComparator", DRIVER_LESS_THAN>>, <<"blockID", "g2">> >>

RecOldDriverLE ==
  << <<"os", "WINNT 10.0">>, <<"feature", FEATURE_DIRECT2D>>,
     <<"featureStatus", FEATURE_BLOCKED_DRIVER_VERSION>>,
     <<"driverVersion", "8.52.322.2202">>,
     <<"driverVersionComparator", DRIVER_LESS_THAN_OR_EQUAL>> >>

RecAllow ==
  << <<"os", "WINNT 10.0">>, <<"feature", FEATURE_HW_DECODED_VIDEO_ZERO_COPY>>,
     <<"featureStatus", FEATURE_ALLOW_QUALIFIED>>, <<"blockID", "g4">> >>

RecLinux ==
  << <<"os", "Linux">>, <<"featureStatus", FEATURE_DISCOURAGED>>,
     <<"versionRange", "100.0,0">>, <<"blockID", "g5">> >>

\* An item without a value: the parser rejects the record.
RecMalformed == << <<"os", "WINNT 10.0">>, <<"feature", "">> >>

\* An item without a ':', and an item with two.
RecOnePart == << <<"os", "WINNT 10.0">>, <<"feature">> >>
RecThreeParts ==
  << <<"os", "WINNT 10.0">>, <<"feature", FEATURE_DIRECT2D, "BLOCKED_DEVICE">> >>

\* Records with a token none of the conversions knows: a feature, an
\* operating system, and a comparator of each of the three kinds.
RecUnknownFeature ==
  << <<"os", "WINNT 10.0">>, <<"feature", "DIRECT2D_V2">>,
     <<"featureStatus", FEATURE_BLOCKED_DEVICE>>, <<"blockID", "g6">> >>

RecUnknownOS ==
  << <<"os", "WINNT 99.0">>, <<"feature", FEATURE_DIRECT2D>>,
     <<"featureStatus", FEATURE_BLOCKED_DEVICE>>, <<"blockID", "g7">> >>

RecUnknownComparator ==
  << <<"os", "WINNT 10.0">>, <<"feature", FEATURE_DIRECT3D_11_ANGLE>>,
     <<"featureStatus", FEATURE_BLOCKED_DRIVER_VERSION>>,
     <<"driverVersion", "8.52.322.2202">>,
     <<"driverVersionComparator", "GREATER">>,
     <<"osVersionEx", "9.0.0.100">>, <<"osVersionExComparator", "BELOW">>,
     <<"minRefreshRate", "144">>, <<"minRefreshRateComparator", "ABOVE">>,
     <<"blockID", "g8">> >>

\* A rule for old drivers on Linux.
RecLinuxOldDriver ==
  << <<"os", "Linux">>, <<"feature", FEATURE_DIRECT2D>>,
     <<"featureStatus", FEATURE_BLOCKED_DRIVER_VERSION>>,
     <<"driverVersion", "9.0.0.100">>,
     <<"driverVersionComparator", DRIVER_LESS_THAN>>, <<"blockID", "g9">> >>

\* A rule for a range of drivers that starts at the Windows machine's own.
RecDriverRange ==
  << <<"os", "WINNT 10.0">>, <<"feature", FEATURE_DIRECT2D>>,
     <<"featureStatus", FEATURE_BLOCKED_DRIVER_VERSION>>,
     <<"driverVersion", "8.52.322.2200">>,
     <<"driverVersionMax", "8.52.322.2203">>,
     <<"driverVersionComparator", DRIVER_BETWEEN_INCLUSIVE_START>>,
     <<"blockID", "g10">> >>

\* A build-id rule whose bound has parts above the low 16 bits.
RecBuildId ==
  << <<"os", "WINNT 10.0">>, <<"feature", FEATURE_DIRECT3D_11_ANGLE>>,
     <<"featureStatus", FEATURE_BLOCKED_DEVICE>>,
     <<"driverVersion", "9.0.0.100">>,
     <<"driverVersionComparator", DRIVER_BUILD_ID_LESS_THAN>>,
     <<"blockID", "g11">> >>

Records ==
  { RecBlockD2D, RecOldDriver, RecOldDriverLE, RecAllow, RecLinux, RecMalformed }

\* The longest downloaded batch of the model, in records.
MaxBatchLen == 1

\* The sequences of at most n different elements of S.
RECURSIVE SeqsUpTo(_, _)
SeqsUpTo(S, n) ==
  IF n = 0 THEN { << >> }
  ELSE LET shorter == SeqsUpTo(S, n - 1) IN
       shorter \cup
         { Append(b, x) :
             <<b, x>> \in { <<c, y>> \in shorter \X S :
                              Len(c) = n - 1 /\ \A i \in 1..Len(c) : c[i] # y } }

Batches == SeqsUpTo(Records, MaxBatchLen)

\* GfxInfoBase::GetApplicationVersion()
AppVersion == "128.0"

\* What Observe's parsing loop makes of each batch.
DriverInfoLists == { ParseBatch(AppVersion, batch) : batch \in Batches }

-----------------------------------------------------------------------------
(* The state machine.                                                       *)

E == EnvironmentOf(env)

\* The process's store and cache as the setters take them.
Store == [prefs |-> prefs, snapshot |-> sFeatureStatus]

\* lastApply before any batch has arrived.
NoApply == [calls |-> 0, evaluated |-> FALSE]

Init ==
  /\ \E c \in InitialConfigs : env = c[1] /\ prefs = c[2]
  /\ sFeatureStatus = NULL
  /\ sFeatureStatusChild = NULL
  /\ sShutdownOccurred = FALSE
  /\ sOnce = "unset"
  /\ lastApply = NoApply

\* The store and cache EvaluateDownloadedBlocklist leaves.
Applied(r) ==
  /\ prefs' = r.s.prefs
  /\ sFeatureStatus' = r.s.snapshot

\* GfxInfoBase::Observe("blocklist-data-gfxItems") in the parent process:
\* the batch is parsed into driverInfo, then EvaluateDownloadedBlocklist.
Observe(driverInfo) ==
  /\ Applied(EvaluateDownloadedBlocklist(E, sShutdownOccurred, Store, driverInfo))
  /\ lastApply' = [calls |-> 1, evaluated |-> ~(driverInfo = << >>)]
  /\ UNCHANGED <<sFeatureStatusChild, sShutdownOccurred, sOnce, env>>

\* The records of the notifications whose text the model follows.
DataRecords ==
  { RecBlockD2D, RecOldDriver, RecOldDriverLE, RecAllow, RecMalformed, RecOnePart,
    RecThreeParts, RecUnknownFeature, RecUnknownOS, RecUnknownComparator,
    RecLinuxOldDriver, RecDriverRange, RecBuildId }

\* The longest such notification, in records.
MaxDataLen == 2

DataBatches == SeqsUpTo(DataRecords, MaxDataLen)

\* Observe, for the first notification of a process: the records of batch
\* have been parsed into driverInfo; lastApply keeps the records.
ObserveParsed(batch, driverInfo) ==
  /\ lastApply = NoApply
  /\ Applied(EvaluateDownloadedBlocklist(E, sShutdownOccurred, Store, driverInfo))
  /\ lastApply' = [calls |-> 1, evaluated |-> ~(driverInfo = << >>), data |-> batch]
  /\ UNCHANGED <<sFeatureStatusChild, sShutdownOccurred, sOnce, env>>

\* GfxInfoBase::Observe("blocklist-data-gfxItems", aData) in the parent
\* process, from the text of the notification on.
ObserveData(batch) == ObserveParsed(batch, ParseBatch(AppVersion, batch))

\* A GetFeatureStatus in the parent process that stores what it resolved.
ResolveParentStoring(aFeature) ==
  /\ prefs' = [prefs EXCEPT !.value[aFeature] =
                 GetFeatureStatus(TRUE, E, prefs, sFeatureStatus, sShutdownOccurred,
                                  aFeature, "").status]
  /\ UNCHANGED <<sFeatureStatus, sFeatureStatusChild, sShutdownOccurred, sOnce, env,
                 lastApply>>

\* GetFeatureStatus(aFeature) in the parent process: it changes nothing.
ResolveParent(aFeature) ==
  /\ GetFeatureStatus(TRUE, E, prefs, sFeatureStatus, sShutdownOccurred, aFeature, "").rv
       = "NS_OK"
  /\ UNCHANGED vars

\* GetFeatureStatus(aFeature) in the content/GPU process: it changes nothing.
ResolveChild(aFeature) ==
  /\ GetFeatureStatus(FALSE, E, prefs, sFeatureStatusChild, FALSE, aFeature, "").rv
       \in {"NS_OK", "NS_ERROR_FAILURE", "CRASH"}
  /\ UNCHANGED vars

\* InitFeatureStatus's call_once registers ClearOnShutdown the first time.
OnceAfterInit(snapshot) ==
  IF snapshot = NULL /\ sOnce = "unset" THEN "registered" ELSE sOnce

\* GetAllFeatures() in the parent process.
AllFeatures ==
  /\ sFeatureStatus' = GetAllFeatures(E, prefs, sFeatureStatus, sShutdownOccurred)
  /\ sOnce' = OnceAfterInit(sFeatureStatus)
  /\ UNCHANGED <<prefs, sFeatureStatusChild, sShutdownOccurred, env, lastApply>>

\* A content/GPU process starts: the parent sends GetAllFeatures() and the
\* child installs it with SetFeatureStatus (MOZ_ASSERT(!sFeatureStatus)).
SetFeatureStatus ==
  /\ sFeatureStatusChild = NULL
  /\ sFeatureStatus' = GetAllFeatures(E, prefs, sFeatureStatus, sShutdownOccurred)
  /\ sOnce' = OnceAfterInit(sFeatureStatus)
  /\ sFeatureStatusChild' = sFeatureStatus'
  /\ UNCHANGED <<prefs, sShutdownOccurred, env, lastApply>>

\* The values the uninitialized local `status` of
\* GetFeatureSuggestedDriverVersion may hold.
UninitializedStatus == {FEATURE_STATUS_UNKNOWN, FEATURE_STATUS_INVALID}

\* GetFeatureSuggestedDriverVersion(aFeature) in the parent process.
SuggestedDriverVersion(aFeature, aStatus) ==
  /\ GetFeatureSuggestedDriverVersion(E, prefs, sShutdownOccurred, aFeature,
                                      aStatus).rv = "NS_OK"
  /\ UNCHANGED vars

\* ShutdownObserver::Observe: the rule tables are released, the flag is set.
Shutdown ==
  /\ ~sShutdownOccurred
  /\ sShutdownOccurred' = TRUE
  /\ UNCHANGED <<prefs, sFeatureStatus, sFeatureStatusChild, sOnce, env, lastApply>>

\* ClearOnShutdown(&sFeatureStatus), registered by InitFeatureStatus, runs
\* once in a later shutdown phase.
ClearOnShutdown ==
  /\ sShutdownOccurred
  /\ sOnce = "registered"
  /\ sOnce' = "cleared"
  /\ sFeatureStatus' = NULL
  /\ UNCHANGED <<prefs, sFeatureStatusChild, sShutdownOccurred, env, lastApply>>

Next ==
  \/ \E driverInfo \in DriverInfoLists : Observe(driverInfo)
  \/ \E f \in Features : ResolveParent(f)
  \/ \E f \in Features : ResolveChild(f)
  \/ AllFeatures
  \/ SetFeatureStatus
  \/ \E f \in Features, st \in UninitializedStatus : SuggestedDriverVersion(f, st)
  \/ Shutdown
  \/ ClearOnShutdown

Spec == Init /\ [][Next]_vars

\* The authoritative process before shutdown, by itself: batches arrive and
\* statuses are asked for and listed.
NextParent ==
  \/ \E driverInfo \in DriverInfoLists : Observe(driverInfo)
  \/ \E f \in Features : ResolveParent(f)
  \/ AllFeatures

SpecParent == Init /\ [][NextParent]_vars

\* The calls of both roles while the process runs: every operation but the
\* shutdown notifications.
NextCalls ==
  \/ \E driverInfo \in DriverInfoLists : Observe(driverInfo)
  \/ \E f \in Features : ResolveParent(f)
  \/ \E f \in Features : ResolveChild(f)
  \/ AllFeatures
  \/ SetFeatureStatus
  \/ \E f \in Features, st \in UninitializedStatus : SuggestedDriverVersion(f, st)

SpecCalls == Init /\ [][NextCalls]_vars

\* A session that starts with an empty preference store.
InitEmptyStore ==
  /\ env \in EnvironmentNames
  /\ prefs = EmptyPrefs
  /\ sFeatureStatus = NULL
  /\ sFeatureStatusChild = NULL
  /\ sShutdownOccurred = FALSE
  /\ sOnce = "unset"
  /\ lastApply = NoApply

SpecEmptyStore == InitEmptyStore /\ [][NextParent]_vars

\* A session over a static table with operators outside the enumeration.
InitBogusOp ==
  /\ env \in BogusOpEnvironmentNames
  /\ prefs = EmptyPrefs
  /\ sFeatureStatus = NULL
  /\ sFeatureStatusChild = NULL
  /\ sShutdownOccurred = FALSE
  /\ sOnce = "unset"
  /\ lastApply = NoApply

SpecBogusOp == InitBogusOp /\ [][NextCalls]_vars

\* The authoritative process up to its first notification.
NextObserve ==
  \/ \E batch \in DataBatches : ObserveData(batch)
  \/ \E f \in Features : ResolveParent(f)

SpecObserve == Init /\ [][NextObserve]_vars

-----------------------------------------------------------------------------
(* Properties.  The calls a property speaks of are made on the state the   *)
(* specification has reached, with the operators the actions are built of. *)

\* resolve(feature) in the authoritative process, on the current state.
ParentStatus(aFeature) ==
  GetFeatureStatus(TRUE, E, prefs, sFeatureStatus, sShutdownOccurred, aFeature, "")

\* resolve(feature) in the subordinate process, on the current state.
ChildStatus(aFeature) ==
  GetFeatureStatus(FALSE, E, prefs, sFeatureStatusChild, FALSE, aFeature, "")

\* applyDownloadedBlocklist on the current state, for the parsed rules d.
Apply(driverInfo) ==
  EvaluateDownloadedBlocklist(E, sShutdownOccurred, Store, driverInfo)

\* The failure id a stored entry carries: its ".failureid" pref, or the
\* generic id when the entry was stored without one.
StoredFailureId(p, aFeature) ==
  IF p.failureid[aFeature] # NoPref THEN p.failureid[aFeature]
  ELSE "FEATURE_FAILURE_BLOCKLIST_PREF"

\* The call returned exactly the entry of aFeature, from the store alone.
ReturnsStoredEntry(r, aFeature) ==
  /\ r.rv = "NS_OK"
  /\ r.status = prefs.value[aFeature]
  /\ r.failureId = StoredFailureId(prefs, aFeature)
  /\ r.reads = {"prefs"}

\* C1, as the spec states it: whenever the store holds an entry for a
\* feature and force-all is off, resolve returns the entry's status and
\* failure id, whatever the status, in both roles, reading neither rules nor
\* snapshot.
C1_StoredEntryVerbatim ==
  \A f \in Features :
    (BlocklistAll(E) = 0 /\ prefs.value[f] # NoPref)
      => /\ ReturnsStoredEntry(ParentStatus(f), f)
         /\ ReturnsStoredEntry(ChildStatus(f), f)

\* C1, amended: whenever the store holds an entry for a feature whose status
\* is not DENIED and force-all is off, resolve returns the entry's status and
\* its failure id (the generic id when none was stored) in both roles,
\* reading neither rules nor snapshot.
C1_StoredEntryUnlessDenied ==
  \A f \in Features :
    (BlocklistAll(E) = 0 /\ prefs.value[f] \notin {NoPref, FEATURE_DENIED})
      => /\ ReturnsStoredEntry(ParentStatus(f), f)
         /\ ReturnsStoredEntry(ChildStatus(f), f)

\* An apply has stored a block for DIRECT2D while the child's snapshot, built
\* before it, still says otherwise.
C1_Witness ==
  /\ BlocklistAll(E) = 0
  /\ lastApply.calls = 1 /\ lastApply.evaluated
  /\ prefs.value[FEATURE_DIRECT2D] = FEATURE_BLOCKED_DEVICE
  /\ sFeatureStatusChild # NULL
  /\ SnapshotLookup(sFeatureStatusChild, FEATURE_DIRECT2D).status = FEATURE_STATUS_OK
  /\ ChildStatus(FEATURE_DIRECT2D).status = FEATURE_BLOCKED_DEVICE

\* The entries getAllFeatureStatuses returns on the current state.
AllStatuses == GetAllFeatures(E, prefs, sFeatureStatus, sShutdownOccurred)

\* C2: in the authoritative process, before shutdown and without force-all,
\* every (feature, status, failureId) entry getAllFeatureStatuses returns
\* equals what resolve(feature) returns at that moment.
C2_SnapshotNeverStale ==
  (~sShutdownOccurred /\ BlocklistAll(E) = 0)
    => \A k \in 1..Len(AllStatuses) :
         /\ AllStatuses[k].status = ParentStatus(AllStatuses[k].feature).status
         /\ AllStatuses[k].failureId = ParentStatus(AllStatuses[k].feature).failureId

\* A snapshot built after a non-empty apply that stored a block is cached.
C2_Witness ==
  /\ ~sShutdownOccurred /\ BlocklistAll(E) = 0
  /\ lastApply.calls = 1 /\ lastApply.evaluated
  /\ sFeatureStatus # NULL
  /\ \E f \in Features : prefs.value[f] \in BlockedStatuses

\* The writes of the passes of an apply, in order, from pass k of trace on.
RECURSIVE WritesFrom(_, _)
WritesFrom(trace, k) ==
  IF k > Len(trace) THEN << >> ELSE trace[k].writes \o WritesFrom(trace, k + 1)

\* The writes an apply of driverInfo makes on the current state, in order.
WritesOf(driverInfo) == WritesFrom(Apply(driverInfo).trace, 1)

FeatureWrites == {"SetPrefValueForFeature", "RemovePrefForFeature"}
SlotWrites == {"SetPrefValueForDriverVersion", "RemovePrefForDriverVersion"}

\* None of the writes w whose operation is in ops left a snapshot cached.
NoneCached(w, ops) == \A k \in 1..Len(w) : w[k].op \in ops => ~w[k].cached

\* C3, as the spec states it: each of the four mutations of the store made
\* in the authoritative process leaves no cached snapshot.
C3_EveryWriteInvalidates ==
  /\ \A d \in DriverInfoLists : NoneCached(WritesOf(d), FeatureWrites \cup SlotWrites)
  /\ \A f \in Features :
       /\ SetPrefValueForFeature(Store, TRUE, f, FEATURE_BLOCKED_DEVICE, "id").snapshot
            = NULL
       /\ RemovePrefForFeature(Store, TRUE, f).snapshot = NULL
  /\ SetPrefValueForDriverVersion(Store, "1.2.3.4").snapshot = NULL
  /\ RemovePrefForDriverVersion(Store).snapshot = NULL

\* C3, amended: set(feature) and clear(feature) in the authoritative process
\* leave no cached snapshot; a set or clear of the suggested-version slot
\* leaves the snapshot as it was.
C3_FeatureWritesInvalidate ==
  /\ \A d \in DriverInfoLists : NoneCached(WritesOf(d), FeatureWrites)
  /\ \A f \in Features :
       /\ SetPrefValueForFeature(Store, TRUE, f, FEATURE_BLOCKED_DEVICE, "id").snapshot
            = NULL
       /\ RemovePrefForFeature(Store, TRUE, f).snapshot = NULL
  /\ SetPrefValueForDriverVersion(Store, "1.2.3.4").snapshot = sFeatureStatus
  /\ RemovePrefForDriverVersion(Store).snapshot = sFeatureStatus

\* The writes w begin with a slot write that left the snapshot cached,
\* followed by a set(feature) that dropped it.
SlotWriteKeptCache(w) ==
  /\ Len(w) >= 2
  /\ w[1].op \in SlotWrites /\ w[1].cached
  /\ w[2].op = "SetPrefValueForFeature" /\ ~w[2].cached

\* A snapshot is cached and an apply would write the slot, then an entry.
C3_Witness ==
  /\ sFeatureStatus # NULL
  /\ lastApply.calls = 1
  /\ \E d \in DriverInfoLists : SlotWriteKeptCache(WritesOf(d))

\* C4: with the store visible to both roles and the subordinate holding the
\* snapshot the authoritative process built, after any applies resolve gives
\* the same (status, failureId) in the subordinate as in the authoritative
\* process, for every feature.
C4_ChildAgreesWithParent ==
  (sFeatureStatusChild # NULL /\ ~sShutdownOccurred)
    => \A f \in Features :
         /\ ChildStatus(f).status = ParentStatus(f).status
         /\ ChildStatus(f).failureId = ParentStatus(f).failureId

\* The statuses for which the switch of apply removes the entry.
ClearingStatuses ==
  { FEATURE_STATUS_UNKNOWN, FEATURE_ALLOW_ALWAYS, FEATURE_ALLOW_QUALIFIED,
    FEATURE_DENIED, FEATURE_STATUS_OK }

\* The entries of the features other than aFeature are the same in p and q.
OthersUnchanged(p, q, aFeature) ==
  \A g \in Features \ {aFeature} :
    p.value[g] = q.value[g] /\ p.failureid[g] = q.failureid[g]

\* What the claim says of one pass t of apply's loop.
HandledByStatus(t) ==
  /\ OthersUnchanged(t.before, t.after, t.feature)
  /\ t.status \in ClearingStatuses
       => /\ t.after.value[t.feature] = NoPref
          /\ t.after.suggested = t.before.suggested
  /\ t.status = FEATURE_BLOCKED_DRIVER_VERSION
       => /\ t.after.suggested = (IF t.suggested # "" THEN t.suggested ELSE NoPref)
          /\ t.after.value[t.feature] = t.status
          /\ t.after.failureid[t.feature] = t.failureId
  /\ t.status \in BlockedStatuses \ {FEATURE_BLOCKED_DRIVER_VERSION}
       => /\ t.after.suggested = t.before.suggested
          /\ t.after.value[t.feature] = t.status
          /\ t.after.failureid[t.feature] = t.failureId

\* What the claim says of an apply that went from the store p to a.s.
HandledTrace(p, a) ==
  /\ Len(a.trace) = Len(FeatureOrder)
  /\ \A k \in 1..Len(FeatureOrder) :
       /\ a.trace[k].feature = FeatureOrder[k]
       /\ HandledByStatus(a.trace[k])
       /\ a.trace[k].before = (IF k = 1 THEN p ELSE a.trace[k - 1].after)
  /\ a.s.prefs = a.trace[Len(FeatureOrder)].after

\* C5: for a non-empty batch, apply handles every feature by its evaluation
\* result: UNKNOWN, ALLOW_ALWAYS, ALLOW_QUALIFIED, DENIED and STATUS_OK clear
\* the feature's entry; BLOCKED_DRIVER_VERSION sets the slot to the produced
\* suggestion, or clears it when there is none, and stores (status,
\* failureId); every other blocked or discouraged status stores (status,
\* failureId).
C5_ApplyHandlesByStatus ==
  \A d \in DriverInfoLists : d # << >> => HandledTrace(prefs, Apply(d))

\* The apply a cleared the slot for want of a suggestion on the first
\* feature and found the second one STATUS_OK.
ClearedSlot(a) ==
  /\ a.trace[1].status = FEATURE_BLOCKED_DRIVER_VERSION
  /\ a.trace[1].suggested = ""
  /\ a.s.prefs.suggested = NoPref
  /\ a.trace[2].status = FEATURE_STATUS_OK

\* An apply has stored BLOCKED_DRIVER_VERSION with its suggestion, clearing
\* another entry, and a further apply would clear the slot again.
C5_Witness ==
  /\ lastApply.calls = 1 /\ lastApply.evaluated
  /\ prefs.value[FEATURE_DIRECT3D_11_ANGLE] = FEATURE_BLOCKED_DRIVER_VERSION
  /\ prefs.suggested = "8.52.322.2202"
  /\ prefs.value[FEATURE_DIRECT2D] = NoPref
  /\ \E d \in DriverInfoLists : d # << >> /\ ClearedSlot(Apply(d))

\* The per-feature entries of a store: (status, failure id) where there is one.
Entries(p) ==
  [ f \in Features |->
      IF p.value[f] = NoPref THEN << >> ELSE <<p.value[f], p.failureid[f]>> ]

\* apply(driverInfo) alone, on an empty store.
ApplyAlone(driverInfo) ==
  EvaluateDownloadedBlocklist(E, sShutdownOccurred,
                              [prefs |-> EmptyPrefs, snapshot |-> NULL], driverInfo)

\* The stores p and q hold the same entries and the same slot.
SameStore(p, q) == Entries(p) = Entries(q) /\ p.suggested = q.suggested

\* C6: each apply fully supersedes what came before: whatever the store
\* holds (from earlier applies or from before them), the store after a
\* non-empty apply(B) - every entry and the suggested-version slot - equals
\* the store after apply(B) alone on an empty store.
C6_ApplySupersedes ==
  \A d \in DriverInfoLists :
    d # << >> => SameStore(Apply(d).s.prefs, ApplyAlone(d).s.prefs)

\* apply(driverInfo) on the store and cache s.
ApplyOn(s, driverInfo) ==
  EvaluateDownloadedBlocklist(E, sShutdownOccurred, s, driverInfo)

\* A second apply of driverInfo leaves the store as the first one, a, left it.
SecondApplyKeeps(a, driverInfo) ==
  ApplyOn(a.s, driverInfo).s.prefs = a.s.prefs

\* C7: apply is idempotent on identical input: from any store, the store
\* (entries and suggested-version slot) after apply(B); apply(B) equals the
\* store after a single apply(B).
C7_ApplyIdempotent ==
  \A d \in DriverInfoLists : SecondApplyKeeps(Apply(d), d)

\* The store holds what an apply of a batch with a suggestion left, over
\* entries of an earlier store, and the same apply would write it again.
C7_Witness ==
  /\ lastApply.calls = 1 /\ lastApply.evaluated
  /\ prefs.value[FEATURE_DIRECT3D_11_ANGLE] = FEATURE_BLOCKED_DRIVER_VERSION
  /\ prefs.suggested = "8.52.322.2202"
  /\ prefs.failureid[FEATURE_DIRECT2D] = "FEATURE_FAILURE_DL_BLOCKLIST_g0"
  /\ \E d \in DriverInfoLists :
       /\ d # << >>
       /\ Apply(d).s.prefs = prefs
       /\ Len(WritesOf(d)) > Len(FeatureOrder)

\* The batches every record of which the parser rejects.
RejectedBatches == { b \in Batches : b # << >> /\ ParseBatch(AppVersion, b) = << >> }

\* The apply a changed neither the store nor the cached snapshot.
NothingChanged(a) == a.s.prefs = prefs /\ a.s.snapshot = sFeatureStatus /\ a.trace = << >>

C9_ResolveAlwaysDefined ==
  ~sShutdownOccurred
    => \A f \in Features :
         ParentStatus(f).rv = "NS_OK" /\ ParentStatus(f).status \in DefinedStatuses

\* getSuggestedDriverVersion(feature) on the current state, the
\* uninitialized local holding aStatus.
SuggestedVersion(aFeature, aStatus) ==
  GetFeatureSuggestedDriverVersion(E, prefs, sShutdownOccurred, aFeature, aStatus)

\* The result r carries "no opinion": UNKNOWN and no failure id.
NoOpinion(r) == r.status = FEATURE_STATUS_UNKNOWN /\ r.failureId = ""

\* Every pass of the apply a got no opinion without scanning a rule list.
AllNoOpinion(a) ==
  \A k \in 1..Len(a.trace) :
    /\ NoOpinion(a.trace[k])
    /\ a.trace[k].suggested = ""
    /\ a.trace[k].scans = NoScans

\* C10, as the spec states it: once shutdown is signaled, resolve,
\* getSuggestedDriverVersion, the evaluations inside apply and
\* getAllFeatureStatuses give UNKNOWN with no failure id and read neither
\* the store, the snapshot nor the rule tables.
C10_ShutdownNoOpinion ==
  sShutdownOccurred
    => /\ \A f \in Features :
            /\ NoOpinion(ParentStatus(f)) /\ ParentStatus(f).reads = {}
            /\ \A st \in UninitializedStatus :
                 SuggestedVersion(f, st).version = "" /\ SuggestedVersion(f, st).reads = {}
       /\ \A d \in DriverInfoLists : AllNoOpinion(Apply(d))
       /\ \A k \in 1..Len(AllStatuses) : NoOpinion(AllStatuses[k])

\* C10, amended: once shutdown is signaled no call scans a rule table, and
\* the rule evaluation gives UNKNOWN with the failure id untouched; the
\* steps before it still run: resolve returns force-all and stored entries,
\* getSuggestedDriverVersion a stored version, getAllFeatureStatuses a cached
\* snapshot, and a non-empty apply clears every entry.
C10_ShutdownSkipsRules ==
  sShutdownOccurred
    => /\ \A f \in Features :
            /\ "rules" \notin ParentStatus(f).reads
            /\ (BlocklistAll(E) = 0 /\ prefs.value[f] = NoPref)
                 => ParentStatus(f).rv = "NS_OK" /\ NoOpinion(ParentStatus(f))
            /\ (BlocklistAll(E) = 0 /\ prefs.value[f] \notin {NoPref, FEATURE_DENIED})
                 => ReturnsStoredEntry(ParentStatus(f), f)
            /\ \A st \in UninitializedStatus :
                 /\ "rules" \notin SuggestedVersion(f, st).reads
                 /\ SuggestedVersion(f, st).version
                      = (IF prefs.suggested # NoPref THEN prefs.suggested ELSE "")
       /\ \A d \in DriverInfoLists :
            /\ AllNoOpinion(Apply(d))
            /\ d # << >> => Entries(Apply(d).s.prefs) = Entries(EmptyPrefs)
       /\ sFeatureStatus # NULL => AllStatuses = sFeatureStatus

\* Shutdown came after an apply: the store holds an entry and a suggested
\* version, another feature has no entry, and a snapshot is cached.
C10_Witness ==
  /\ sShutdownOccurred
  /\ BlocklistAll(E) = 0
  /\ lastApply.calls = 1 /\ lastApply.evaluated
  /\ prefs.value[FEATURE_DIRECT3D_11_ANGLE] = FEATURE_BLOCKED_DRIVER_VERSION
  /\ prefs.value[FEATURE_DIRECT2D] = NoPref
  /\ prefs.suggested # NoPref
  /\ sFeatureStatus # NULL
  /\ \E k \in 1..Len(sFeatureStatus) : sFeatureStatus[k].status = FEATURE_STATUS_OK

\* The snapshot without the entries of aFeature.
WithoutEntry(snapshot, aFeature) ==
  SelectSeq(snapshot, LAMBDA fs : fs.feature # aFeature)

\* resolve(aFeature) in a subordinate process that was handed snapshot.
ChildStatusWith(snapshot, aFeature) ==
  GetFeatureStatus(FALSE, E, prefs, snapshot, FALSE, aFeature, "")

\* The call r returned the pair the snapshot entry fs records, and read no
\* rule table.
ServedFromSnapshot(r, fs) ==
  /\ r.rv = "NS_OK"
  /\ r.status = fs.status
  /\ r.failureId = fs.failureId
  /\ r.reads = {"prefs", "snapshot"}

\* The call r failed, and read no rule table.
FailedOnSnapshot(r) ==
  /\ r.rv = "NS_ERROR_FAILURE"
  /\ r.reads = {"prefs", "snapshot"}

\* C11: in a subordinate process holding the shared snapshot (force-all not
\* configured, which is decided before this step), resolve for a feature
\* without an override entry returns exactly the (status, failureId) the
\* snapshot records for the feature, fails when the snapshot has no entry
\* for it, and never reads a rule table.
C11_ChildReadsSnapshot ==
  (sFeatureStatusChild # NULL /\ BlocklistAll(E) = 0)
    => \A f \in Features :
         prefs.value[f] = NoPref
           => /\ \E k \in 1..Len(sFeatureStatusChild) :
                   /\ sFeatureStatusChild[k].feature = f
                   /\ ServedFromSnapshot(ChildStatusWith(sFeatureStatusChild, f),
                                         sFeatureStatusChild[k])
              /\ FailedOnSnapshot(ChildStatusWith(WithoutEntry(sFeatureStatusChild, f),
                                                  f))

\* The subordinate answers from its snapshot for a feature without an entry
\* while the authoritative process, after an apply, answers differently.
C11_Witness ==
  /\ sFeatureStatusChild # NULL /\ BlocklistAll(E) = 0
  /\ lastApply.calls = 1
  /\ \E f \in Features :
       /\ prefs.value[f] = NoPref
       /\ ChildStatus(f).rv = "NS_OK"
       /\ ChildStatus(f).status = SnapshotLookup(sFeatureStatusChild, f).status
       /\ ChildStatus(f).status # ParentStatus(f).status

\* Rule i of info is the kind of rule the mode looks for and all of its
\* predicates hold for the machine of e and aFeature.
Matches(e, info, i, aFeature, os, aForAllowing) ==
  RuleStep(e.build, e.machine, info[i], aFeature, os, aForAllowing) = "win"

\* The indexes of the rules of info that match in the mode.
Matching(e, info, aFeature, os, aForAllowing) ==
  { i \in 1..Len(info) : Matches(e, info, i, aFeature, os, aForAllowing) }

\* The lowest index in the non-empty set S.
Lowest(S) == CHOOSE i \in S : \A j \in S : i <= j

\* The rule evaluation of resolve and apply before shutdown:
\* GetFeatureStatusImpl entered with FEATURE_STATUS_UNKNOWN.
RuleEvaluation(e, aFeature, aDriverInfo, os) ==
  GetFeatureStatusImpl(e.build, e.machine, e.staticInfo, FALSE, aFeature,
                       FEATURE_STATUS_UNKNOWN, "", aDriverInfo, "", os)

\* The default the claim names for a feature no block rule of info matched.
IsDefaultOnNoMatch(e, info, aFeature, os, status) ==
  IF ~IsFeatureAllowlisted(aFeature) THEN status = FEATURE_STATUS_OK
  ELSE IF Matching(e, info, aFeature, os, TRUE) = {} THEN status = FEATURE_DENIED
  ELSE status = info[Lowest(Matching(e, info, aFeature, os, TRUE))].mFeatureStatus

\* The evaluation of aFeature over the consulted list info gave the default
\* whenever no rule of info matched in block mode (the hard-coded post-match
\* block of one device aside).
DefaultsOnNoMatch(e, info, aDriverInfo, aFeature, os) ==
  ( /\ Matching(e, info, aFeature, os, FALSE) = {}
    /\ ~Nv310MBlock(e.build, e.machine, FEATURE_STATUS_UNKNOWN, aFeature) )
    => IsDefaultOnNoMatch(e, info, aFeature, os,
                          RuleEvaluation(e, aFeature, aDriverInfo, os).status)

\* C12: when the primary adapter's attributes are available and no rule of
\* the consulted list matches the machine for the feature in block mode, the
\* rule evaluation yields DENIED for an allowlist-governed feature that no
\* allow rule matches, the matching allow rule's status if one does, and
\* STATUS_OK for a feature that is not allowlist-governed.
C12_DefaultOnNoMatch ==
  AdapterResolved(E.machine)
    => \A f \in Features :
         /\ DefaultsOnNoMatch(E, E.staticInfo, << >>, f, E.machine.implOS)
         /\ \A d \in DriverInfoLists :
              d # << >> => DefaultsOnNoMatch(E, d, d, f, E.machine.os)

\* The machine m with one attribute of its primary adapter unobtainable, and
\* m itself when its primary adapter is unresolved as it is.
UnresolvedMachines(m) ==
  { [m EXCEPT !.adapters[1].vendorOk = FALSE],
    [m EXCEPT !.adapters[1].deviceOk = FALSE],
    [m EXCEPT !.adapters[1].driverVersionOk = FALSE] }
    \cup (IF AdapterResolved(m) THEN {} ELSE {m})

\* The result r is the fixed policy default for aFeature, reached without
\* scanning a rule list; the failure id is set only with the block.
IsUnresolvedDefault(r, aFeature) ==
  /\ r.rv = "NS_OK"
  /\ r.scans = NoScans
  /\ IF OnlyAllowFeatureOnKnownConfig(aFeature)
     THEN /\ r.status = FEATURE_BLOCKED_DEVICE
          /\ r.failureId = "FEATURE_FAILURE_CANT_RESOLVE_ADAPTER"
     ELSE /\ r.status = FEATURE_STATUS_OK
          /\ r.failureId = ""

\* C13: when the vendor id, the device id or the driver version of the
\* primary adapter cannot be obtained, the rule evaluation (before shutdown,
\* entered with UNKNOWN) returns BLOCKED_DEVICE with
\* FEATURE_FAILURE_CANT_RESOLVE_ADAPTER for a feature that is allowed only on
\* a known configuration and STATUS_OK for any other feature, and scans no
\* rule list, whether or not downloaded rules are supplied.
C13_UnresolvedAdapterDefault ==
  \A m \in UnresolvedMachines(E.machine), f \in Features, d \in DriverInfoLists :
    IsUnresolvedDefault(
      RuleEvaluation([E EXCEPT !.machine = m], f, d, m.os), f)

\* On a machine without a resolvable adapter the authoritative process has
\* built a snapshot that holds the block for one feature and STATUS_OK for
\* the feature that needs no known configuration.
C13_Witness ==
  /\ ~AdapterResolved(E.machine)
  /\ BlocklistAll(E) = 0
  /\ prefs = EmptyPrefs
  /\ sFeatureStatus # NULL
  /\ \E k \in 1..Len(sFeatureStatus) :
       /\ sFeatureStatus[k].feature = FEATURE_DIRECT2D
       /\ sFeatureStatus[k].status = FEATURE_BLOCKED_DEVICE
       /\ sFeatureStatus[k].failureId = "FEATURE_FAILURE_CANT_RESOLVE_ADAPTER"
  /\ \E k \in 1..Len(sFeatureStatus) :
       /\ sFeatureStatus[k].feature = FEATURE_DIRECT3D_11_ANGLE
       /\ sFeatureStatus[k].status = FEATURE_STATUS_OK

\* The call ended in force-all block: nothing was consulted.
ForcedBlocked(r) ==
  /\ r.rv = "NS_OK"
  /\ r.status = FEATURE_BLOCKED_DEVICE
  /\ r.failureId = "FEATURE_FAILURE_BLOCK_ALL"
  /\ r.reads = {}

\* The call ended in force-all allow: nothing was consulted.
ForcedOk(r) ==
  /\ r.rv = "NS_OK"
  /\ r.status = FEATURE_STATUS_OK
  /\ r.reads = {}

\* Both roles resolve aFeature as the force-all setting `all` prescribes.
ForcedInBothRoles(all, aFeature) ==
  /\ all > 0 => ForcedBlocked(ParentStatus(aFeature)) /\ ForcedBlocked(ChildStatus(aFeature))
  /\ all < 0 => ForcedOk(ParentStatus(aFeature)) /\ ForcedOk(ChildStatus(aFeature))

\* resolve on the current state of a process whose gfx.blocklist.all is 0.
StatusWithoutForceAll(isParent, snapshot, shutdown, aFeature) ==
  GetFeatureStatus(isParent, [E EXCEPT !.blocklistAll = 0], prefs, snapshot,
                   shutdown, aFeature, "")

\* C14, as the spec states it: whenever force-all is configured, resolve
\* short-circuits for every feature and in both roles: positive gives
\* BLOCKED_DEVICE with FEATURE_FAILURE_BLOCK_ALL, negative gives STATUS_OK,
\* and neither the store, the snapshot nor a rule is consulted.
C14_ForceAllOnEveryBuild ==
  \A f \in Features : ForcedInBothRoles(E.blocklistAll, f)

\* C14, amended: on a build without RELEASE_OR_BETA a configured force-all
\* short-circuits resolve for every feature and in both roles, consulting
\* nothing; on a build with RELEASE_OR_BETA the setting is ignored and
\* resolve answers as if it were not configured.
C14_ForceAllShortCircuits ==
  \A f \in Features :
    /\ ~E.releaseOrBeta => ForcedInBothRoles(E.blocklistAll, f)
    /\ E.releaseOrBeta
         => /\ ParentStatus(f)
                 = StatusWithoutForceAll(TRUE, sFeatureStatus, sShutdownOccurred, f)
            /\ ChildStatus(f)
                 = StatusWithoutForceAll(FALSE, sFeatureStatusChild, FALSE, f)

\* Force-all block is configured on a build that honours it, while the store
\* holds a different entry for a feature and the subordinate has a snapshot.
C14_Witness ==
  /\ E.blocklistAll > 0 /\ ~E.releaseOrBeta
  /\ sFeatureStatusChild # NULL
  /\ \E f \in Features :
       /\ prefs.value[f] \notin {NoPref, FEATURE_BLOCKED_DEVICE}
       /\ ForcedBlocked(ParentStatus(f))
       /\ ForcedBlocked(ChildStatus(f))

\* What a rule evaluation hands back to its caller.
Handed(r) == <<r.rv, r.status, r.failureId, r.suggested>>

\* Every scan r made was over the list named `list`.
ScansOnly(r, list) == \A k \in 1..Len(r.scans) : r.scans[k].list = list

\* Static tables to put in place of the process's own.
StaticTables == {<< >>, WinStaticInfo, LinuxStaticInfo}

\* The rule evaluation for the downloaded rules d is over d alone: whatever
\* the static table is, the outcome is the same.
UsesOnlyDownloaded(e, d, aFeature, os) ==
  /\ ScansOnly(RuleEvaluation(e, aFeature, d, os), "downloaded")
  /\ \A t \in StaticTables :
       RuleEvaluation([e EXCEPT !.staticInfo = t], aFeature, d, os)
         = RuleEvaluation(e, aFeature, d, os)

\* The rule evaluation without downloaded rules is over the static table t
\* alone: its outcome is that of the same scans over t as a downloaded set.
UsesOnlyStatic(e, t, aFeature, os) ==
  /\ ScansOnly(RuleEvaluation([e EXCEPT !.staticInfo = t], aFeature, << >>, os),
               "static")
  /\ t # << >>
       => Handed(RuleEvaluation([e EXCEPT !.staticInfo = t], aFeature, << >>, os))
            = Handed(RuleEvaluation([e EXCEPT !.staticInfo = << >>], aFeature, t, os))

\* C15: the rule evaluation scans one list only.  With downloaded rules
\* supplied both the blocking scan and the allowlist scan are over them and
\* the static table has no part in the outcome; with none supplied both
\* scans are over the static table.
C15_RuleSourceExclusive ==
  \A f \in Features :
    /\ \A d \in DriverInfoLists :
         d # << >> => UsesOnlyDownloaded(E, d, f, E.machine.os)
    /\ UsesOnlyStatic(E, E.staticInfo, f, E.machine.implOS)
    /\ \A d \in DriverInfoLists : UsesOnlyStatic(E, d, f, E.machine.implOS)

\* An apply has stored what the scan of its downloaded rules gave for a
\* feature for which the static table gives something else, and the same
\* rules took the allowlist-governed feature through both scans.
C15_Witness ==
  /\ lastApply.evaluated
  /\ AdapterResolved(E.machine)
  /\ \E d \in DriverInfoLists :
       /\ d # << >>
       /\ Len(RuleEvaluation(E, FEATURE_HW_DECODED_VIDEO_ZERO_COPY, d, E.machine.os).scans) = 2
       /\ \E f \in Features :
            /\ prefs.value[f] = RuleEvaluation(E, f, d, E.machine.os).status
            /\ prefs.value[f] # RuleEvaluation(E, f, << >>, E.machine.os).status

\* find over info for the current machine, entered with nothing suggested
\* and an empty failure id.
Find(info, aFeature, os, aForAllowing) ==
  FindBlocklistedDeviceInList(E.build, E.machine, info, "", aFeature, "", os,
                              aForAllowing)

\* The identifier find reports for rule r.
RuleIdOf(r) ==
  IF r.mRuleId # "" THEN r.mRuleId ELSE "FEATURE_FAILURE_DL_BLOCKLIST_NO_ID"

\* r is the lowest-index rule of info that is of the mode's family and whose
\* predicates hold, or UNKNOWN when there is none.
IsFirstQualifying(e, info, aFeature, os, aForAllowing, r) ==
  IF Matching(e, info, aFeature, os, aForAllowing) = {}
  THEN r.status = FEATURE_STATUS_UNKNOWN
  ELSE /\ r.status
            = info[Lowest(Matching(e, info, aFeature, os, aForAllowing))].mFeatureStatus
       /\ r.failureId
            = RuleIdOf(info[Lowest(Matching(e, info, aFeature, os, aForAllowing))])
       /\ MatchingAllowStatus(r.status) = aForAllowing

\* find over info returns its first qualifying rule, in both modes, unless
\* the hard-coded block of the NVidia 310M applies to the feature.
FindsFirstQualifying(info, aFeature, os) ==
  ~Nv310MBlock(E.build, E.machine, FEATURE_STATUS_UNKNOWN, aFeature)
    => \A aForAllowing \in BOOLEAN :
         IsFirstQualifying(E, info, aFeature, os, aForAllowing,
                           Find(info, aFeature, os, aForAllowing))

\* C16: find returns the status and the identifier of the lowest-index rule
\* whose status family is that of the search mode and whose predicates all
\* hold for the machine and the feature, and UNKNOWN when no rule qualifies;
\* a rule of the other family is never selected.
C16_FindFirstQualifying ==
  \A f \in Features :
    /\ FindsFirstQualifying(E.staticInfo, f, E.machine.implOS)
    /\ \A d \in DriverInfoLists : FindsFirstQualifying(d, f, E.machine.os)

\* The snapshot a build makes on the current state: for each feature of the
\* enumeration, in order, what resolve returns for it.
BuiltNow ==
  [ k \in 1..Len(FeatureOrder) |->
      FeatureStatusEntry(FeatureOrder[k], ParentStatus(FeatureOrder[k])) ]

\* One step of the process as the snapshots see it: a cached snapshot is
\* kept or dropped but never replaced, an installed one is kept, and a
\* snapshot that appears is the one built on the state before the step.
SnapshotStep ==
  /\ sFeatureStatus # NULL
       => (sFeatureStatus' = NULL \/ sFeatureStatus' = sFeatureStatus)
  /\ sFeatureStatusChild # NULL => sFeatureStatusChild' = sFeatureStatusChild
  /\ (sFeatureStatus = NULL /\ sFeatureStatus' # NULL) => sFeatureStatus' = BuiltNow
  /\ (sFeatureStatusChild = NULL /\ sFeatureStatusChild' # NULL)
       => sFeatureStatusChild' = sFeatureStatus'

Observed == lastApply.calls = 1 /\ "data" \in DOMAIN lastApply

\* The item has exactly two non-empty parts.
WellFormedItem(item) == Cardinality({ i \in 1..Len(item) : item[i] # "" }) = 2

WellFormed(entry) == \A k \in 1..Len(entry) : WellFormedItem(entry[k])

\* parse(record) for the running application.
Parsed(entry) == BlocklistEntryToDriverInfo(AppVersion, entry)

\* The indexes of the records of batch that parse.
KeptIndexes(batch) == { i \in 1..Len(batch) : Parsed(batch[i]).ok }

\* rules holds the rules of exactly the records of batch at the indexes of
\* kept, in the order of the records.
KeepsInOrder(batch, kept, rules) ==
  /\ Len(rules) = Cardinality(kept)
  /\ \A i \in kept :
       rules[Cardinality({ j \in kept : j <= i })] = Parsed(batch[i]).di

\* The rule list of batch drops every record with an ill-formed item, and
\* only the records that do not parse.
DropsRejectedAlone(batch, rules) ==
  /\ \A i \in 1..Len(batch) : ~WellFormed(batch[i]) => i \notin KeptIndexes(batch)
  /\ KeepsInOrder(batch, KeptIndexes(batch), rules)

ComparatorKeys ==
  { "driverVersionComparator", "osVersionExComparator",
    "minRefreshRateComparator", "maxRefreshRateComparator" }

\* The values of the items of entry under key.
ValuesOf(entry, key) ==
  { entry[k][2] : k \in { j \in 1..Len(entry) : Len(entry[j]) = 2 /\ entry[j][1] = key } }

UnknownComparator(entry, key) ==
  \E v \in ValuesOf(entry, key) : v \notin DriverVersionCmpDefs

\* The operating system names and the feature names of the model.
OSNames == {"WINNT 10.0", "WINNT 6.0", "All", "Linux", "Darwin"}
FeatureNames == Features \cup {allFeatures, optionalFeatures}

UnknownOS(entry) == \E v \in ValuesOf(entry, "os") : v \notin OSNames

UnknownFeature(entry) == \E v \in ValuesOf(entry, "feature") : v \notin FeatureNames

\* The record without its items under key.
WithoutKey(entry, key) == SelectSeq(entry, LAMBDA item : item[1] # key)

\* Rule r wins for some feature on some machine of the model, in some mode.
CanMatch(r) ==
  \E name \in EnvironmentNames, f \in Features, aForAllowing \in BOOLEAN :
    \/ RuleStep(EnvironmentOf(name).build, EnvironmentOf(name).machine, r, f,
                EnvironmentOf(name).machine.os, aForAllowing) = "win"
    \/ RuleStep(EnvironmentOf(name).build, EnvironmentOf(name).machine, r, f,
                EnvironmentOf(name).machine.implOS, aForAllowing) = "win"

\* The record yields no rule that can match.
FailsClosed(entry) == Parsed(entry).ok => ~CanMatch(Parsed(entry).di)

\* C19, as the spec states it: a record with an unrecognized comparator
\* name, operating system name or feature name yields no rule that can match
\* any machine or feature.
C19_UnknownTokenFailsClosed ==
  Observed
    => \A i \in 1..Len(lastApply.data) :
         ( \/ UnknownOS(lastApply.data[i])
           \/ UnknownFeature(lastApply.data[i])
           \/ \E key \in ComparatorKeys : UnknownComparator(lastApply.data[i], key) )
           => FailsClosed(lastApply.data[i])

\* What parse makes of an unrecognized name in entry: the record is rejected
\* for a feature name, its rule matches nowhere for an operating system
\* name, and a comparator name is read as if the item were not there.
UnknownTokenHandled(entry) ==
  /\ UnknownFeature(entry) => ~Parsed(entry).ok
  /\ UnknownOS(entry) => FailsClosed(entry)
  /\ \A key \in ComparatorKeys :
       UnknownComparator(entry, key) => Parsed(entry) = Parsed(WithoutKey(entry, key))

\* C19, amended: an unrecognized feature name rejects the record and an
\* unrecognized operating system name yields a rule that matches no machine;
\* an unrecognized comparator name is read as "comparison ignored", the
\* value of a rule without the comparator, so that the rule can still match.
C19_UnknownTokenHandled ==
  Observed => \A i \in 1..Len(lastApply.data) : UnknownTokenHandled(lastApply.data[i])

\* A notification of a record with unrecognized comparator names and a
\* record with an unrecognized operating system name has been applied: the
\* rule of the first has blocked its feature, that of the second nothing.
C19_Witness ==
  /\ Observed
  /\ Len(lastApply.data) = 2
  /\ \E key \in ComparatorKeys : UnknownComparator(lastApply.data[1], key)
  /\ UnknownOS(lastApply.data[2])
  /\ Parsed(lastApply.data[1]).ok /\ Parsed(lastApply.data[2]).ok
  /\ prefs.value[FEATURE_DIRECT3D_11_ANGLE] = FEATURE_BLOCKED_DRIVER_VERSION
  /\ prefs.failureid[FEATURE_DIRECT3D_11_ANGLE] = "FEATURE_FAILURE_DL_BLOCKLIST_g8"
  /\ prefs.value[FEATURE_DIRECT2D] = NoPref

\* The rules of info, each with an explicit suggestion.
WithSuggestion(info) ==
  [ k \in 1..Len(info) |-> [info[k] EXCEPT !.mSuggestedVersion = "27.20.100.8587"] ]

\* The rule lists find is followed on: the static table, the rules of the
\* observed notification, and both with explicit suggestions.
SuggestionLists(batch) ==
  { E.staticInfo, ParseBatch(AppVersion, batch), WithSuggestion(E.staticInfo),
    WithSuggestion(ParseBatch(AppVersion, batch)) }

\* The suggestion the claim names for the winning rule r.
SuggestionFor(r) ==
  IF r.mSuggestedVersion # "" THEN r.mSuggestedVersion
  ELSE IF r.mComparisonOp = DRIVER_LESS_THAN /\ r.mDriverVersion # allDriverVersions
       THEN FormatVersion(r.mDriverVersion)
  ELSE ""

\* find's result r over info carries the suggestion of its winning rule when
\* `suggests` holds and the status is BLOCKED_DRIVER_VERSION, and none
\* otherwise.
Suggests(suggests, info, r) ==
  IF suggests /\ r.status = FEATURE_BLOCKED_DRIVER_VERSION
  THEN r.suggested = SuggestionFor(info[r.i])
  ELSE r.suggested = ""

\* Every find over the lists of the state suggests as Suggests says.
FindSuggests(suggests, batch) ==
  \A info \in SuggestionLists(batch), f \in Features, aForAllowing \in BOOLEAN :
    /\ Suggests(suggests, info, Find(info, f, E.machine.os, aForAllowing))
    /\ Suggests(suggests, info, Find(info, f, E.machine.implOS, aForAllowing))

\* C20, as the spec states it: whenever the winning status is
\* BLOCKED_DRIVER_VERSION find's suggested version is the rule's explicit
\* suggestion, or else the four-part decoding of the bound exactly when the
\* comparator is LESS_THAN and the bound is not the all-versions sentinel;
\* in every other case it is empty.
C20_SuggestsOnEveryBuild == Observed => FindSuggests(TRUE, lastApply.data)

\* C20, amended: on a Windows build find suggests a version as the claim
\* says; on any other build find suggests none.
C20_SuggestedVersion ==
  Observed => FindSuggests(E.build = "XP_WIN", lastApply.data)

\* On Windows a notification of a LESS_THAN_OR_EQUAL rule and a LESS_THAN
\* rule for old drivers has been applied: both features are blocked and the
\* stored suggestion is the bound of the LESS_THAN rule.
C20_Witness ==
  /\ Observed
  /\ E.build = "XP_WIN"
  /\ lastApply.data = <<RecOldDriverLE, RecOldDriver>>
  /\ prefs.value[FEATURE_DIRECT2D] = FEATURE_BLOCKED_DRIVER_VERSION
  /\ prefs.value[FEATURE_DIRECT3D_11_ANGLE] = FEATURE_BLOCKED_DRIVER_VERSION
  /\ prefs.suggested = "8.52.322.2202"
  /\ Find(ParseBatch(AppVersion, lastApply.data), FEATURE_DIRECT2D, E.machine.os,
          FALSE).suggested = ""

\* The step is an apply: Observe has handed some parsed rules on.
IsApply == \E driverInfo \in DriverInfoLists : Observe(driverInfo)

\* C21: the override store changes in no step of resolve, of
\* getSuggestedDriverVersion, of getAllFeatureStatuses or of the install of
\* a snapshot, in either role: a step that changes a per-feature entry, a
\* failure id or the suggested-version slot is an apply.
C21_OnlyApplyWrites == [][prefs' # prefs => IsApply]_vars

\* Both roles have resolved from a snapshot built by resolve, the static
\* table blocks a feature, and the store is still the empty one the run
\* started with.
C21_Witness ==
  /\ lastApply = NoApply
  /\ prefs = EmptyPrefs
  /\ sFeatureStatus # NULL
  /\ sFeatureStatusChild # NULL
  /\ ParentStatus(FEATURE_DIRECT3D_11_ANGLE).status = FEATURE_BLOCKED_DRIVER_VERSION
  /\ ChildStatus(FEATURE_DIRECT3D_11_ANGLE).status = FEATURE_BLOCKED_DRIVER_VERSION

-----------------------------------------------------------------------------
(* C22: the range operators of the two comparisons.                         *)

\* Driver versions in increasing order of their 64-bit values.
TestVersions ==
  << ZeroVersion, V(8, 52, 322, 2200), V(8, 52, 322, 2202), V(8, 52, 322, 2203),
     V(8, 53, 0, 0), V(9, 0, 0, 100), allDriverVersions >>

\* Refresh rates around those of the machines.
TestRates == {0, 59, 60, 61, 144, 145}

RangeOps ==
  { DRIVER_COMPARISON_IGNORED, DRIVER_BETWEEN_INCLUSIVE_START,
    DRIVER_BETWEEN_INCLUSIVE, DRIVER_BETWEEN_EXCLUSIVE }

\* The reference definitions, on integers.
RangeReference(aCmp, system, lower, upper) ==
  CASE aCmp = DRIVER_COMPARISON_IGNORED -> TRUE
    [] aCmp = DRIVER_BETWEEN_INCLUSIVE_START -> lower <= system /\ system < upper
    [] aCmp = DRIVER_BETWEEN_INCLUSIVE -> lower <= system /\ system <= upper
    [] aCmp = DRIVER_BETWEEN_EXCLUSIVE -> lower < system /\ system < upper

\* The driver-version comparison of the system version TestVersions[i]
\* agrees with the reference on the versions' ranks.
DriverRangesAsReference(i) ==
  \A lo \in DOMAIN TestVersions, hi \in DOMAIN TestVersions, op \in RangeOps :
    DriverVersionMatch(op, TestVersions[i], TestVersions[lo], TestVersions[hi])
      <=> RangeReference(op, i, lo, hi)

RateRangesAsReference(system) ==
  \A lo \in TestRates, hi \in TestRates, op \in RangeOps :
    MatchingRefreshRates(system, lo, hi, op) <=> RangeReference(op, system, lo, hi)

\* C22: in the driver-version comparison and in the refresh-rate comparison,
\* DRIVER_COMPARISON_IGNORED is true for every system value and every pair
\* of bounds, BETWEEN_INCLUSIVE_START is lower <= system < upper,
\* BETWEEN_INCLUSIVE is lower <= system <= upper and BETWEEN_EXCLUSIVE is
\* lower < system < upper; checked for the driver version and the refresh
\* rates of the machine against every pair of bounds around them.
C22_RangeOperators ==
  /\ \E i \in DOMAIN TestVersions :
       /\ TestVersions[i] = SystemDriverVersion(E.machine, 1)
       /\ DriverRangesAsReference(i)
  /\ RateRangesAsReference(E.machine.minRefreshRate)
  /\ RateRangesAsReference(E.machine.maxRefreshRate)

\* A range rule whose lower bound is the machine's driver version has been
\* applied and blocks its feature.
C22_Witness ==
  /\ Observed
  /\ lastApply.data = <<RecDriverRange>>
  /\ SystemDriverVersion(E.machine, 1) = V(8, 52, 322, 2200)
  /\ prefs.value[FEATURE_DIRECT2D] = FEATURE_BLOCKED_DRIVER_VERSION
  /\ prefs.failureid[FEATURE_DIRECT2D] = "FEATURE_FAILURE_DL_BLOCKLIST_g10"

-----------------------------------------------------------------------------
(* C23: a device-id lookup that fails for another reason than "not found".  *)

\* The lookup of the adapter's device id in r's device set has failed.
LookupFailed(m, r) ==
  /\ ~DevicesIsEmpty(r.mDevices)
  /\ DevicesContains(r.mDevices, m.adapters[IF r.mGpu2 THEN 2 ELSE 1].device)
       \notin {"NS_OK", "NS_ERROR_NOT_AVAILABLE"}

\* The predicates of r that come after the device lookup hold.
RestHolds(build, m, r, aFeature) ==
  /\ r.mHardware = "" \/ r.mHardware = m.hardware
  /\ r.mModel = "" \/ r.mModel = m.model
  /\ r.mProduct = "" \/ r.mProduct = m.product
  /\ r.mManufacturer = "" \/ r.mManufacturer = m.manufacturer
  /\ \/ ~HasDriverVersions(build)
     \/ r.mDriverVersion = allDriverVersions
     \/ DriverVersionMatch(r.mComparisonOp,
                           SystemDriverVersion(m, IF r.mGpu2 THEN 2 ELSE 1),
                           r.mDriverVersion, r.mDriverVersionMax)
  /\ \/ r.mFeature \in {allFeatures, aFeature}
     \/ r.mFeature = optionalFeatures /\ OnlyAllowFeatureOnKnownConfig(aFeature)

\* Block mode: when the scan reaches rule i, whose lookup fails, and the
\* remaining predicates hold, find returns rule i's status and identifier.
FailedLookupBlocks(info, aFeature, os, i) ==
  ( /\ i <= Len(info)
    /\ RuleStep(E.build, E.machine, info[i], aFeature, os, FALSE) = "break"
    /\ LookupFailed(E.machine, info[i])
    /\ RestHolds(E.build, E.machine, info[i], aFeature) )
  => /\ Find(info, aFeature, os, FALSE).status = info[i].mFeatureStatus
     /\ Find(info, aFeature, os, FALSE).failureId = RuleIdOf(info[i])

\* Allow mode: the rule find selects is never one whose lookup failed.
FailedLookupNeverAllows(info, aFeature, os, i) ==
  ( /\ i <= Len(info)
    /\ RuleStep(E.build, E.machine, info[i], aFeature, os, TRUE) = "win" )
  => ~LookupFailed(E.machine, info[i])

\* C23: when the device-id lookup of a rule fails for a reason other than
\* "not found", the rule counts as matching in block mode, where find returns
\* its status and identifier if its remaining predicates hold, and as not
\* matching in allow mode, where the scan goes on.
C23_LookupFailureBlocks ==
  \A info \in {E.staticInfo} \cup DriverInfoLists, aFeature \in Features :
    /\ FailedLookupBlocks(info, aFeature, E.machine.os,
                          LoopExit(E.build, E.machine, info, aFeature, E.machine.os,
                                   FALSE))
    /\ FailedLookupNeverAllows(info, aFeature, E.machine.os,
                               LoopExit(E.build, E.machine, info, aFeature,
                                        E.machine.os, TRUE))

-----------------------------------------------------------------------------
(* C24: the hard-coded block after the loop.                                *)

HookFailureId == "FEATURE_FAILURE_D2D_NV310M_BLOCK"

\* The scan of the call that returned r has selected a rule: the loop ran and
\* was left at a rule that passed every predicate.
Selected(info, aFeature, os, aForAllowing, r) ==
  /\ r.i \in 1..Len(info)
  /\ RuleStep(E.build, E.machine, info[r.i], aFeature, os, aForAllowing) = "win"

\* A rule the scan selected is what find returns, and the hook's block is
\* returned only when the scan selected no rule.
HookOnlyOnUnknown(info, aFeature, os, aForAllowing, r) ==
  /\ Selected(info, aFeature, os, aForAllowing, r)
     => /\ r.status = info[r.i].mFeatureStatus
        /\ r.failureId = RuleIdOf(info[r.i])
  /\ r.failureId = HookFailureId
     => /\ ~Selected(info, aFeature, os, aForAllowing, r)
        /\ r.status = FEATURE_BLOCKED_DEVICE

\* C24: the hard-coded post-match block is applied only when the generic
\* scan has ended with UNKNOWN; when the scan has selected a rule, the status
\* and the failure identifier find returns are that rule's and are never
\* replaced by the hook.
C24_HookOnlyOnUnknown ==
  \A info \in {E.staticInfo} \cup DriverInfoLists, aFeature \in Features,
     aForAllowing \in BOOLEAN :
    HookOnlyOnUnknown(info, aFeature, E.machine.os, aForAllowing,
                      Find(info, aFeature, E.machine.os, aForAllowing))

\* On the machine with the NVidia 310M a downloaded rule that blocks D2D has
\* been applied: the stored block is the rule's, and over the static table,
\* where no rule is selected for D2D, the hook's block is returned.
C24_Witness ==
  /\ env = "win-nv310m"
  /\ lastApply.calls = 1
  /\ prefs.value[FEATURE_DIRECT2D] = FEATURE_BLOCKED_DEVICE
  /\ prefs.failureid[FEATURE_DIRECT2D] = "FEATURE_FAILURE_DL_BLOCKLIST_g1"
  /\ Find(E.staticInfo, FEATURE_DIRECT2D, E.machine.os, FALSE).failureId
       = HookFailureId

-----------------------------------------------------------------------------
(* C25: the build-id operators.                                             *)

BuildIdOps == {DRIVER_BUILD_ID_LESS_THAN, DRIVER_BUILD_ID_LESS_THAN_OR_EQUAL}

\* System versions that share their low 16 bits with others of the set.
BuildIdSystems ==
  { ZeroVersion, V(0, 0, 0, 100), V(9, 0, 0, 100), V(0, 0, 0, 2200),
    V(8, 52, 322, 2200), V(9, 0, 0, 2200), V(0, 0, 0, 2203), V(8, 52, 322, 2203) }

\* Bounds with and without parts above the low 16 bits.
BuildIdBounds ==
  { ZeroVersion, V(0, 0, 0, 100), V(9, 0, 0, 100), V(0, 0, 0, 2200),
    V(8, 52, 322, 2200), V(0, 0, 0, 2202), V(8, 52, 322, 2202), V(0, 0, 0, 2203),
    V(0, 0, 0, 3000), allDriverVersions }

\* The build-id comparison of the whole bound with the low part of the system
\* version, on integers.
BuildIdReference(aCmp, low, aBlocked) ==
  \/ aBlocked[1] > 0 \/ aBlocked[2] > 0 \/ aBlocked[3] > 0
  \/ IF aCmp = DRIVER_BUILD_ID_LESS_THAN THEN low < aBlocked[4] ELSE low <= aBlocked[4]

\* The result for the system version s depends on s through its low 16 bits
\* only, and is the comparison of those bits with the whole bound.
MasksSystem(s) ==
  \A op \in BuildIdOps, b \in BuildIdBounds :
    /\ DriverVersionMatch(op, s, b, ZeroVersion) <=> BuildIdReference(op, s[4], b)
    /\ \A s2 \in BuildIdSystems :
         s2[4] = s[4]
           => (DriverVersionMatch(op, s2, b, ZeroVersion)
                 <=> DriverVersionMatch(op, s, b, ZeroVersion))

\* The result for the system version s does not change with the parts of
\* the bound above its low 16 bits.
MasksBound(s) ==
  \A op \in BuildIdOps, b \in BuildIdBounds, b2 \in BuildIdBounds :
    b2[4] = b[4]
      => (DriverVersionMatch(op, s, b2, ZeroVersion)
            <=> DriverVersionMatch(op, s, b, ZeroVersion))

\* C25 as stated: the result of BUILD_ID_LESS_THAN and
\* BUILD_ID_LESS_THAN_OR_EQUAL depends only on the low 16 bits of the system
\* version and the low 16 bits of the rule's bound.
C25_BuildIdMasksBoth ==
  /\ SystemDriverVersion(E.machine, 1) \in BuildIdSystems
  /\ MasksSystem(SystemDriverVersion(E.machine, 1))
  /\ MasksBound(SystemDriverVersion(E.machine, 1))

\* C25, amended: the result of BUILD_ID_LESS_THAN and
\* BUILD_ID_LESS_THAN_OR_EQUAL depends on the system version only through its
\* low 16 bits, which are compared with the rule's whole bound.
C25_BuildIdMasksSystem ==
  /\ SystemDriverVersion(E.machine, 1) \in BuildIdSystems
  /\ MasksSystem(SystemDriverVersion(E.machine, 1))

\* A build-id rule with the bound 9.0.0.100 has been applied on the machine
\* with driver 8.52.322.2200 and blocks its feature, although 2200 is not
\* less than 100.
C25_Witness ==
  /\ Observed
  /\ lastApply.data = <<RecBuildId>>
  /\ SystemDriverVersion(E.machine, 1) = V(8, 52, 322, 2200)
  /\ prefs.value[FEATURE_DIRECT3D_11_ANGLE] = FEATURE_BLOCKED_DEVICE
  /\ prefs.failureid[FEATURE_DIRECT3D_11_ANGLE] = "FEATURE_FAILURE_DL_BLOCKLIST_g11"

-----------------------------------------------------------------------------
(* C26: comparison operators outside the enumeration.                       *)

UnknownDriverOp(r) == r.mComparisonOp \notin DriverVersionCmpDefs

UnknownRateOp(r) ==
  \/ r.mMinRefreshRateComparisonOp \notin DriverVersionCmpDefs
  \/ r.mMaxRefreshRateComparisonOp \notin DriverVersionCmpDefs

\* Rule r passes every predicate for aFeature in the given mode.
Wins(r, aFeature, aForAllowing) ==
  RuleStep(E.build, E.machine, r, aFeature, E.machine.os, aForAllowing) = "win"

\* C26 as stated: a rule whose comparison operator value is not recognized
\* fails its comparison predicate and never wins, for the driver-version
\* predicate with every bound and for the refresh-rate predicates.
C26_UnknownOpNeverWins ==
  \A i \in DOMAIN E.staticInfo, aFeature \in Features, aForAllowing \in BOOLEAN :
    UnknownDriverOp(E.staticInfo[i]) \/ UnknownRateOp(E.staticInfo[i])
      => ~Wins(E.staticInfo[i], aFeature, aForAllowing)

\* C26, amended: on a build that compares driver versions, a rule whose
\* driver-version operator is not recognized wins only if its bound is the
\* all-versions value, which passes the predicate whatever the operator; a
\* rule whose refresh-rate operator is not recognized never wins while the
\* screen count is positive; find raises no error and returns the first rule
\* that wins, or UNKNOWN.
C26_UnknownOpFailsComparison ==
  \A aFeature \in Features, aForAllowing \in BOOLEAN :
    /\ \A i \in DOMAIN E.staticInfo :
         /\ ( /\ UnknownDriverOp(E.staticInfo[i])
              /\ HasDriverVersions(E.build)
              /\ E.staticInfo[i].mDriverVersion # allDriverVersions )
            => ~Wins(E.staticInfo[i], aFeature, aForAllowing)
         /\ (UnknownRateOp(E.staticInfo[i]) /\ E.machine.screenCount > 0)
            => ~Wins(E.staticInfo[i], aFeature, aForAllowing)
    /\ IsFirstQualifying(E, E.staticInfo, aFeature, E.machine.os, aForAllowing,
                         Find(E.staticInfo, aFeature, E.machine.os, aForAllowing))

\* Over the table with the unrecognized operators every feature has been
\* resolved: the rule with the bounded driver version and the rules on the
\* refresh rates were passed over, the rule with the all-versions bound won.
C26_Witness ==
  /\ env = "win-bogus-op"
  /\ sFeatureStatus # NULL
  /\ ParentStatus(FEATURE_DIRECT2D).status = FEATURE_STATUS_OK
  /\ ParentStatus(FEATURE_HW_DECODED_VIDEO_ZERO_COPY).status = FEATURE_DENIED
  /\ ParentStatus(FEATURE_DIRECT3D_11_ANGLE).status = FEATURE_BLOCKED_DEVICE
  /\ ParentStatus(FEATURE_DIRECT3D_11_ANGLE).failureId
       = "FEATURE_FAILURE_BOGUS_OP_ALL_VERSIONS"

-----------------------------------------------------------------------------
(* C27: where the entries an apply stores come from.                        *)

\* The rules of the notification applied last.
AppliedRules == ParseBatch(AppVersion, lastApply.data)

\* The entry of aFeature is that of a rule of d that matched in block mode.
StoredByRule(d, aFeature) ==
  \E i \in DOMAIN d :
    /\ RuleStep(E.build, E.machine, d[i], aFeature, E.machine.os, FALSE) = "win"
    /\ prefs.value[aFeature] = d[i].mFeatureStatus
    /\ prefs.failureid[aFeature] = RuleIdOf(d[i])

\* The entry of aFeature is the block of a feature on an adapter that could
\* not be resolved.
StoredForUnresolvedAdapter(aFeature) ==
  /\ ~AdapterResolved(E.machine)
  /\ prefs.value[aFeature] = FEATURE_BLOCKED_DEVICE
  /\ prefs.failureid[aFeature] = "FEATURE_FAILURE_CANT_RESOLVE_ADAPTER"

\* The entry of aFeature is the hard-coded block after a scan of d that
\* selected no rule.
StoredByHook(d, aFeature) ==
  /\ \A i \in DOMAIN d :
       RuleStep(E.build, E.machine, d[i], aFeature, E.machine.os, FALSE) # "win"
  /\ prefs.value[aFeature] = FEATURE_BLOCKED_DEVICE
  /\ prefs.failureid[aFeature] = HookFailureId

\* A non-empty batch has just been applied.
AppliedNonEmpty == Observed /\ lastApply.evaluated

-----------------------------------------------------------------------------
(* C28: the default branch of apply's switch.                               *)

\* No pass of the loop of the apply that left trace went through `default:`.
AllHandled(trace) == \A k \in DOMAIN trace : ~trace[k].unhandled

\* C28: during apply the result for every feature is a status with a case of
\* its own in the switch; the default branch ("Unhandled feature status!")
\* is not reached for any batch and any outcome of the collaborators.
C28_DefaultUnreachable ==
  \A driverInfo \in DriverInfoLists : AllHandled(Apply(driverInfo).trace)

-----------------------------------------------------------------------------
(* C29: the statuses the store holds.                                       *)

\* The six statuses with a storing case in apply's switch, written out.
StorableStatuses ==
  { FEATURE_BLOCKED_DRIVER_VERSION, FEATURE_BLOCKED_MISMATCHED_VERSION,
    FEATURE_BLOCKED_DEVICE, FEATURE_DISCOURAGED, FEATURE_BLOCKED_OS_VERSION,
    FEATURE_BLOCKED_PLATFORM_TEST }

\* C29: starting from an empty store, after any sequence of applies every
\* stored per-feature status is one of BLOCKED_DRIVER_VERSION,
\* BLOCKED_MISMATCHED_VERSION, BLOCKED_DEVICE, DISCOURAGED, BLOCKED_OS_VERSION
\* and BLOCKED_PLATFORM_TEST; DENIED, the ALLOW statuses, STATUS_OK and
\* UNKNOWN are never stored.
C29_StoredStatuses ==
  \A aFeature \in Features :
    prefs.value[aFeature] # NoPref => prefs.value[aFeature] \in StorableStatuses

\* An apply whose evaluation gave a block for one feature, DENIED for
\* another and STATUS_OK for a third has left the store of this state: only
\* the block is stored.
C29_Witness ==
  /\ lastApply.calls = 1
  /\ \E driverInfo \in DriverInfoLists, f \in Features, g \in Features, h \in Features :
       /\ Apply(driverInfo).s.prefs = prefs
       /\ \E k \in DOMAIN Apply(driverInfo).trace :
            /\ Apply(driverInfo).trace[k].feature = f
            /\ Apply(driverInfo).trace[k].status = FEATURE_DENIED
       /\ \E k \in DOMAIN Apply(driverInfo).trace :
            /\ Apply(driverInfo).trace[k].feature = g
            /\ Apply(driverInfo).trace[k].status = FEATURE_STATUS_OK
       /\ prefs.value[f] = NoPref
       /\ prefs.value[g] = NoPref
       /\ prefs.value[h] = FEATURE_BLOCKED_DEVICE

-----------------------------------------------------------------------------
(* C30: the feature of a suggested version.                                 *)

\* Some rule of a downloaded list blocks aFeature on the driver version and
\* suggests aVersion.
SuggestedByDownloadedRule(aFeature, aVersion) ==
  \E d \in DriverInfoLists :
    /\ Find(d, aFeature, E.machine.os, FALSE).status = FEATURE_BLOCKED_DRIVER_VERSION
    /\ Find(d, aFeature, E.machine.os, FALSE).failureId = prefs.failureid[aFeature]
    /\ Find(d, aFeature, E.machine.os, FALSE).suggested = aVersion

\* The version r that getSuggestedDriverVersion(aFeature) returned is empty,
\* or aFeature resolves to BLOCKED_DRIVER_VERSION and r is the suggestion of
\* the rule that blocks it: a downloaded rule when the feature has a stored
\* entry, a rule of the static table otherwise.
SuggestionOfBlockingRule(aFeature, r) ==
  r.version # ""
    => /\ ParentStatus(aFeature).status = FEATURE_BLOCKED_DRIVER_VERSION
       /\ IF prefs.value[aFeature] # NoPref
          THEN SuggestedByDownloadedRule(aFeature, r.version)
          ELSE Find(E.staticInfo, aFeature, E.machine.implOS, FALSE).suggested
                 = r.version

\* C30: after any sequence of applies, getSuggestedDriverVersion(feature)
\* returns a non-empty version only for a feature whose resolved status is
\* BLOCKED_DRIVER_VERSION, and the version is the suggestion of the rule that
\* blocks that feature, not one made for another feature or by an earlier
\* batch (where gfx.blocklist.all does not force the status).
C30_SuggestionOfBlockingRule ==
  BlocklistAll(E) = 0
    => \A aFeature \in Features, aStatus \in UninitializedStatus :
         SuggestionOfBlockingRule(aFeature,
                                  GetFeatureSuggestedDriverVersion(E, prefs,
                                                                   sShutdownOccurred,
                                                                   aFeature, aStatus))

=============================================================================
